---- MODULE Spec2Model ----
(***************************************************************************)
(* The in-memory knowledge graph store of PatientMap                       *)
(* (src/src/patientmap/tools/kg_tools.py).  Every tool loads the graph     *)
(* from tool_context.state['kg_data'] with _get_graph, works on a private  *)
(* networkx DiGraph and writes it back with _save_graph.                   *)
(***************************************************************************)
EXTENDS Integers, Sequences, FiniteSets, TLC

\* ---------------------------------------------------------------- bounds
\* number of state-changing tool calls in one session
MaxCalls == 4
\* length of the batches built from the full item sets
MaxBatch == 2
\* length of the longest batch made of one repeated invalid item
MaxErrBatch == 6

\* the last tick of the wall clock
MaxClock == 2
\* number of durable tool calls against the database
MaxDurableCalls == 4

\* the wall clock is finer than the one-second resolution of the file names
TicksPerSecond == 2

\* errors[:5] - the number of error lines a bulk response shows
MaxShownErrors == 5

VARIABLES
    kg_data,    \* tool_context.state['kg_data'] (present = the key is set)
    pre,        \* kg_data as it was when the last call started
    last,       \* the last call: operation, arguments, response
    calls,      \* number of mutating calls made so far
    files,      \* the output directory: path -> content of the file
    now,        \* the wall clock, in ticks of 1/TicksPerSecond second
    db,         \* the Neo4j database: nodes and relationships
    db_pre,     \* db as it was when the last durable call started
    client,     \* neo4j_client: the module global _driver and its callers
    flight      \* the tool call that is between its _get_graph and its return

\* what the tools of the in-memory store never touch
others == <<files, now, db, db_pre, client, flight>>

vars == <<kg_data, pre, last, calls, files, now, db, db_pre, client, flight>>

\* ------------------------------------------------------------ input sets
\* Python's None
None == "None"

NodeIds == {"P1", "condition_hypertension", "medication_lisinopril"}
PatientIds == {"P1"}
PatientNames == {"Alice"}
RelTypes == {"HAS_CONDITION", "TREATS"}

\* ------------------------------------------------------------ dict helpers
EmptyDict == [k \in {} |-> None]

Restrict(f, S) == [x \in S |-> f[x]]

\* d.get(k) / d.get(k, default)
Get(d, k, default) == IF k \in DOMAIN d THEN d[k] ELSE default

\* dict(a); a.update(b)
Update(a, b) == b @@ a

\* Python truthiness: a dict is true when it has a key, an optional string
\* when it is neither None nor empty
TruthyDict(d) == DOMAIN d # {}
TruthyStr(s) == s # None /\ s # ""


\* ------------------------------------------------- networkx DiGraph model
\* nodes: id -> attribute dict; edges: <<u, v>> -> attribute dict.
EmptyGraph == [nodes |-> EmptyDict, edges |-> EmptyDict]

number_of_nodes(G) == Cardinality(DOMAIN G.nodes)
number_of_edges(G) == Cardinality(DOMAIN G.edges)
has_node(G, n) == n \in DOMAIN G.nodes
has_edge(G, u, v) == <<u, v>> \in DOMAIN G.edges
in_edges(G, n) == {e \in DOMAIN G.edges : e[2] = n}
out_edges(G, n) == {e \in DOMAIN G.edges : e[1] = n}

\* graph.add_node(n, **attrs): a new node gets attrs, an existing node has
\* its attribute dict updated with attrs.
nx_add_node(G, n, attrs) ==
    [G EXCEPT !.nodes = IF n \in DOMAIN G.nodes
                        THEN [G.nodes EXCEPT ![n] = Update(@, attrs)]
                        ELSE (n :> Update(EmptyDict, attrs)) @@ G.nodes]

\* An add_edge that leaves an existing edge as it is (first write wins).
nx_add_edge_keep_existing(G, u, v, attrs) ==
    IF <<u, v>> \in DOMAIN G.edges THEN G
    ELSE [nodes |-> [n \in {u, v} \ DOMAIN G.nodes |-> EmptyDict] @@ G.nodes,
          edges |-> (<<u, v>> :> Update(EmptyDict, attrs)) @@ G.edges]

\* graph.add_edge(u, v, **attrs): creates missing endpoints, then creates
\* the edge or updates the attribute dict of the existing one.
nx_add_edge(G, u, v, attrs) ==
    LET missing == {u, v} \ DOMAIN G.nodes
        nodes1  == [n \in missing |-> EmptyDict] @@ G.nodes
        old     == IF <<u, v>> \in DOMAIN G.edges THEN G.edges[<<u, v>>] ELSE EmptyDict
    IN  [nodes |-> nodes1,
         edges |-> (<<u, v>> :> Update(old, attrs)) @@ G.edges]

\* A node removal that forgets the incident edges.
nx_remove_node_keep_edges(G, n) ==
    [nodes |-> Restrict(G.nodes, DOMAIN G.nodes \ {n}),
     edges |-> G.edges]

\* graph.remove_node(n): removes n and every edge into or out of n.
nx_remove_node(G, n) ==
    [nodes |-> Restrict(G.nodes, DOMAIN G.nodes \ {n}),
     edges |-> Restrict(G.edges, {e \in DOMAIN G.edges : e[1] # n /\ e[2] # n})]

\* graph.remove_edge(u, v)
nx_remove_edge(G, u, v) ==
    [G EXCEPT !.edges = Restrict(G.edges, DOMAIN G.edges \ {<<u, v>>})]

\* --------------------------------------------------------- serialisation
NoData == [present |-> FALSE, nodes |-> {}, links |-> {}]

\* nx.node_link_data(graph, edges="links"): one dict per node,
\* {**attrs, "id": n}, and one per edge, {**attrs, "source": u, "target": v}.
node_link_data(G) ==
    [present |-> TRUE,
     nodes   |-> {("id" :> n) @@ G.nodes[n] : n \in DOMAIN G.nodes},
     links   |-> {("source" :> e[1] @@ "target" :> e[2]) @@ G.edges[e] : e \in DOMAIN G.edges}]

\* nx.node_link_graph(data, directed=True, edges="links"): the node is
\* d["id"], its attributes are the other keys; each link is added with
\* add_edge (keys other than source/target are its attributes).
node_link_graph(data) ==
    LET ids   == {d["id"] : d \in data.nodes}
        ends  == {d["source"] : d \in data.links} \cup {d["target"] : d \in data.links}
        nodeOf(n) == CHOOSE d \in data.nodes : d["id"] = n
        pairs == {<<d["source"], d["target"]>> : d \in data.links}
        linkOf(e) == CHOOSE d \in data.links : d["source"] = e[1] /\ d["target"] = e[2]
    IN  [nodes |-> [n \in ids \cup ends |->
                        IF n \in ids
                        THEN Restrict(nodeOf(n), DOMAIN nodeOf(n) \ {"id"})
                        ELSE EmptyDict],
         edges |-> [e \in pairs |->
                        Restrict(linkOf(e), DOMAIN linkOf(e) \ {"source", "target"})]]

\* _get_graph(tool_context)
get_graph(data) == IF ~data.present THEN EmptyGraph ELSE node_link_graph(data)

\* _save_graph(graph, tool_context)
save_graph(G) == node_link_data(G)

\* ------------------------------------------------------- the durable side
\* Neo4j: nodes by internal id, each with its label and properties; one
\* relationship per (start node, type, end node), with its properties.
EmptyDb == [nodes |-> EmptyDict, rels |-> EmptyDict]

\* the callers of neo4j_client (one per session)
Sessions == {"s1", "s2"}

\* _driver = None; zero stands for None, a positive number for a Driver
NoDriver == 0


\* ------------------------------------------------------------- responses
\* A tool returns a string; the model keeps the facts the string states.
Response ==
    [status |-> "ok", error |-> "none", added |-> 0,
     errors_total |-> 0, errors_shown |-> <<>>,
     edges_removed |-> 0, edges_transferred |-> 0, merged_attributes |-> {},
     parts |-> <<>>, view |-> EmptyDict]

Err(kind) == [Response EXCEPT !.status = "error", !.error = kind]

NoArgs == [a |-> None, b |-> None, batch |-> <<>>, rel |-> None, props |-> EmptyDict]

\* One call: the tool's response and the kg_data it leaves behind.
Call(op, args, out) ==
    /\ calls < MaxCalls
    /\ calls' = calls + 1
    /\ pre' = kg_data
    /\ kg_data' = out.data
    /\ last' = [op |-> op, a |-> args.a, b |-> args.b, batch |-> args.batch,
                rel |-> args.rel, props |-> args.props, result |-> out.result]
    /\ UNCHANGED others

\* No call has been made: nothing on disk, the module as imported.
NoCallYet ==
    /\ last = [op |-> "none", a |-> None, b |-> None, batch |-> <<>>,
               rel |-> None, props |-> EmptyDict, result |-> Response]
    /\ calls = 0
    /\ files = EmptyDict
    /\ now = 0
    \* the module after import: no driver, nobody inside get_driver
    /\ client =
        [driver |-> NoDriver,                      \* the module global _driver
         made   |-> 0,                             \* GraphDatabase.driver calls so far
         opened |-> {},                            \* the drivers that are not closed
         pc     |-> [t \in Sessions |-> "idle"],   \* where each caller stands
         got    |-> [t \in Sessions |-> NoDriver], \* what get_driver returned last
         configured |-> TRUE,   \* NEO4J_URI, NEO4J_USERNAME, NEO4J_PASSWORD are set
         reachable  |-> TRUE]   \* the server answers
    \* no tool call is under way
    /\ flight = [pc |-> "idle", op |-> "none", before |-> NoData, after |-> NoData,
                 pending |-> <<>>, result |-> Response]

Init ==
    /\ kg_data = NoData
    /\ pre = NoData
    /\ db = EmptyDb
    /\ db_pre = EmptyDb
    /\ NoCallYet

\* ---------------------------------------------- initialize_patient_graph
\* f"Patient: {patient_name}"
PatientLabel(patient_name) ==
    CASE patient_name = "Alice" -> "Patient: Alice"
      [] OTHER -> "Patient: ?"

\* An initialisation that starts from a new graph instead of the stored one.
initialize_patient_graph_fresh(data, patient_id, patient_name) ==
    [data |-> save_graph(nx_add_node(EmptyGraph, patient_id,
                  [node_type |-> "patient", name |-> patient_name,
                   label |-> PatientLabel(patient_name)])),
     result |-> Response]

initialize_patient_graph(data, patient_id, patient_name) ==
    LET graph == get_graph(data)
        g1 == nx_add_node(graph, patient_id,
                  [node_type |-> "patient", name |-> patient_name,
                   label |-> PatientLabel(patient_name)])
    IN  [data |-> save_graph(g1), result |-> Response]

InitializePatientGraph ==
    \E p \in PatientIds, nm \in PatientNames :
        Call("initialize_patient_graph", [NoArgs EXCEPT !.a = p],
             initialize_patient_graph(kg_data, p, nm))

\* --------------------------------------------------------------- add_node
NodeTypes == {"condition", "medication"}
NodeLabels == {"Hypertension"}
\* the last bag names a key the tool sets itself
NodeProps == {EmptyDict, [icd_code |-> None], [icd_code |-> "I10"], [node_type |-> "patient"]}

NotInitialized == Err("not_initialized")

\* attrs = {'node_type': ..., 'label': ...}; if properties: attrs.update(properties)
node_attrs(node_type, label, properties) ==
    LET attrs == [node_type |-> node_type, label |-> label]
    IN  IF TruthyDict(properties) THEN Update(attrs, properties) ELSE attrs

\* add_node without the check for an empty graph.
add_node_unchecked(data, node_id, node_type, label, properties) ==
    [data |-> save_graph(nx_add_node(get_graph(data), node_id,
                             node_attrs(node_type, label, properties))),
     result |-> Response]

add_node(data, node_id, node_type, label, properties) ==
    LET graph == get_graph(data) IN
    IF number_of_nodes(graph) = 0
    THEN [data |-> data, result |-> NotInitialized]
    ELSE [data |-> save_graph(nx_add_node(graph, node_id,
                                 node_attrs(node_type, label, properties))),
          result |-> Response]

AddNode ==
    \E n \in NodeIds, t \in NodeTypes, l \in NodeLabels, p \in NodeProps :
        Call("add_node", [NoArgs EXCEPT !.a = n, !.b = t, !.rel = l, !.props = p],
             add_node(kg_data, n, t, l, p))

\* --------------------------------------------------------- bulk_add_nodes
\* The items a caller may put in a nodes batch; a dict without one of the
\* required keys is an invalid item.
ValidNodeItems ==
    { [node_id |-> "condition_hypertension", node_type |-> "condition",
       label |-> "Hypertension", properties |-> [icd_code |-> "I10"]],
      [node_id |-> "medication_lisinopril", node_type |-> "medication",
       label |-> "Lisinopril"] }
InvalidNodeItems ==
    { [node_type |-> "condition", label |-> "Hypertension"],
      [node_id |-> "medication_lisinopril", node_type |-> "medication"] }

SeqsUpTo(S, n) == UNION {[1..k -> S] : k \in 0..n}
LongBatches(S) == {[i \in 1..n |-> x] : x \in S, n \in (MaxBatch+1)..MaxErrBatch}


\* errors[:5]
Shown(errors) ==
    SubSeq(errors, 1, IF Len(errors) < MaxShownErrors THEN Len(errors) ELSE MaxShownErrors)

\* A loop that stops at the first invalid item instead of going on.
RECURSIVE bulk_add_nodes_loop_fail_fast(_, _, _)
bulk_add_nodes_loop_fail_fast(acc, nodes, i) ==
    IF i > Len(nodes) THEN acc
    ELSE LET node_data == nodes[i] IN
         IF ~({"node_id", "node_type", "label"} \subseteq DOMAIN node_data)
         THEN [acc EXCEPT !.errors = Append(@, <<i - 1, "invalid">>)]
         ELSE bulk_add_nodes_loop_fail_fast(
                  [acc EXCEPT
                      !.graph = nx_add_node(@, node_data["node_id"],
                                    node_attrs(node_data["node_type"], node_data["label"],
                                               Get(node_data, "properties", EmptyDict))),
                      !.added = Append(@, node_data["node_id"])],
                  nodes, i + 1)

\* The for loop of bulk_add_nodes from item i on (i is 1-based here, the
\* error message carries the 0-based enumerate index).
RECURSIVE bulk_add_nodes_loop(_, _, _)
bulk_add_nodes_loop(acc, nodes, i) ==
    IF i > Len(nodes) THEN acc
    ELSE LET node_data == nodes[i] IN
         IF "node_id" \notin DOMAIN node_data
         THEN bulk_add_nodes_loop(
                  [acc EXCEPT !.errors = Append(@, <<i - 1, "missing node_id">>)], nodes, i + 1)
         ELSE IF "node_type" \notin DOMAIN node_data
         THEN bulk_add_nodes_loop(
                  [acc EXCEPT !.errors = Append(@, <<i - 1, "missing node_type">>)], nodes, i + 1)
         ELSE IF "label" \notin DOMAIN node_data
         THEN bulk_add_nodes_loop(
                  [acc EXCEPT !.errors = Append(@, <<i - 1, "missing label">>)], nodes, i + 1)
         ELSE bulk_add_nodes_loop(
                  [acc EXCEPT
                      !.graph = nx_add_node(@, node_data["node_id"],
                                    node_attrs(node_data["node_type"], node_data["label"],
                                               Get(node_data, "properties", EmptyDict))),
                      !.added = Append(@, node_data["node_id"])],
                  nodes, i + 1)

bulk_add_nodes(data, nodes) ==
    LET graph == get_graph(data) IN
    IF number_of_nodes(graph) = 0
    THEN [data |-> data, result |-> NotInitialized]
    ELSE LET r == bulk_add_nodes_loop(
                      [graph |-> graph, added |-> <<>>, errors |-> <<>>], nodes, 1)
         IN  [data |-> save_graph(r.graph),
              result |-> [Response EXCEPT !.added = Len(r.added),
                                          !.errors_total = Len(r.errors),
                                          !.errors_shown = Shown(r.errors)]]

BulkAddNodes ==
    \E nodes \in SeqsUpTo(ValidNodeItems \cup InvalidNodeItems, MaxBatch)
                 \cup LongBatches(InvalidNodeItems) :
        Call("bulk_add_nodes", [NoArgs EXCEPT !.batch = nodes],
             bulk_add_nodes(kg_data, nodes))

\* ------------------------------------------------------- add_relationship
EdgeProps == {EmptyDict}

edge_attrs(relationship_type, properties) ==
    LET attrs == [relationship_type |-> relationship_type]
    IN  IF TruthyDict(properties) THEN Update(attrs, properties) ELSE attrs

\* add_relationship that checks the source only.
add_relationship_source_only(data, source_id, target_id, relationship_type, properties) ==
    LET graph == get_graph(data) IN
    IF ~has_node(graph, source_id)
    THEN [data |-> data, result |-> Err("source_not_found")]
    ELSE [data |-> save_graph(nx_add_edge(graph, source_id, target_id,
                                 edge_attrs(relationship_type, properties))),
          result |-> Response]

add_relationship(data, source_id, target_id, relationship_type, properties) ==
    LET graph == get_graph(data) IN
    IF ~has_node(graph, source_id)
    THEN [data |-> data, result |-> Err("source_not_found")]
    ELSE IF ~has_node(graph, target_id)
    THEN [data |-> data, result |-> Err("target_not_found")]
    ELSE [data |-> save_graph(nx_add_edge(graph, source_id, target_id,
                                 edge_attrs(relationship_type, properties))),
          result |-> Response]

AddRelationship ==
    \E s \in NodeIds, t \in NodeIds, r \in RelTypes, p \in EdgeProps :
        Call("add_relationship", [NoArgs EXCEPT !.a = s, !.b = t, !.rel = r, !.props = p],
             add_relationship(kg_data, s, t, r, p))

\* ------------------------------------------------- bulk_add_relationships
ValidRelItems ==
    { [source_id |-> "P1", target_id |-> "condition_hypertension",
       relationship_type |-> "HAS_CONDITION"],
      [source_id |-> "P1", target_id |-> "medication_lisinopril",
       relationship_type |-> "TAKES_MEDICATION"],
      [source_id |-> "medication_lisinopril", target_id |-> "condition_hypertension",
       relationship_type |-> "TREATS", properties |-> [confidence |-> "high"]] }
InvalidRelItems ==
    { [source_id |-> "P1", target_id |-> "condition_hypertension"] }


RECURSIVE bulk_add_relationships_loop(_, _, _)
bulk_add_relationships_loop(acc, relationships, i) ==
    IF i > Len(relationships) THEN acc
    ELSE LET rel_data == relationships[i]
             fail(msg) == bulk_add_relationships_loop(
                              [acc EXCEPT !.errors = Append(@, <<i - 1, msg>>)],
                              relationships, i + 1)
         IN
         IF "source_id" \notin DOMAIN rel_data THEN fail("missing source_id")
         ELSE IF "target_id" \notin DOMAIN rel_data THEN fail("missing target_id")
         ELSE IF "relationship_type" \notin DOMAIN rel_data THEN fail("missing relationship_type")
         ELSE IF ~has_node(acc.graph, rel_data["source_id"]) THEN fail("source does not exist")
         ELSE IF ~has_node(acc.graph, rel_data["target_id"]) THEN fail("target does not exist")
         ELSE bulk_add_relationships_loop(
                  [acc EXCEPT
                      !.graph = nx_add_edge(@, rel_data["source_id"], rel_data["target_id"],
                                    edge_attrs(rel_data["relationship_type"],
                                               Get(rel_data, "properties", EmptyDict))),
                      !.added = Append(@, <<rel_data["source_id"], rel_data["target_id"]>>)],
                  relationships, i + 1)

bulk_add_relationships(data, relationships) ==
    LET graph == get_graph(data)
        r == bulk_add_relationships_loop(
                 [graph |-> graph, added |-> <<>>, errors |-> <<>>], relationships, 1)
    IN  [data |-> save_graph(r.graph),
         result |-> [Response EXCEPT !.added = Len(r.added),
                                     !.errors_total = Len(r.errors),
                                     !.errors_shown = Shown(r.errors)]]

BulkAddRelationships ==
    \E relationships \in SeqsUpTo(ValidRelItems \cup InvalidRelItems, MaxBatch)
                 \cup LongBatches(InvalidRelItems) :
        Call("bulk_add_relationships", [NoArgs EXCEPT !.batch = relationships],
             bulk_add_relationships(kg_data, relationships))

\* --------------------------------- add_patient_condition / _medication
ConditionNames == {"Hypertension"}
MedicationNames == {"Lisinopril"}
IcdCodes == {None, "I10"}
Dosages == {None}

\* f"condition_{condition_name.lower().replace(' ', '_')}"
ConditionId(condition_name) ==
    CASE condition_name = "Hypertension" -> "condition_hypertension"
      [] OTHER -> "condition_?"

\* f"medication_{medication_name.lower().replace(' ', '_')}"
MedicationId(medication_name) ==
    CASE medication_name = "Lisinopril" -> "medication_lisinopril"
      [] OTHER -> "medication_?"

\* f"{result}\n{relationship_result}": the response carries both messages
\* and reads as an error when either of them is one.
Both(r1, r2) ==
    [Response EXCEPT
        !.status = IF r1.status = "error" \/ r2.status = "error" THEN "error" ELSE "ok",
        !.error  = IF r1.status = "error" THEN r1.error ELSE r2.error,
        !.parts  = <<r1, r2>>]

add_patient_condition(data, patient_id, condition_name, icd_code) ==
    LET condition_id == ConditionId(condition_name)
        properties == IF TruthyStr(icd_code) THEN [icd_code |-> icd_code] ELSE EmptyDict
        r1 == add_node(data, condition_id, "condition", condition_name, properties)
        r2 == add_relationship(r1.data, patient_id, condition_id, "HAS_CONDITION", EmptyDict)
    IN  [data |-> r2.data, result |-> Both(r1.result, r2.result)]

AddPatientCondition ==
    \E p \in NodeIds, c \in ConditionNames, icd \in IcdCodes :
        Call("add_patient_condition", [NoArgs EXCEPT !.a = p, !.b = ConditionId(c)],
             add_patient_condition(kg_data, p, c, icd))

add_patient_medication(data, patient_id, medication_name, dosage) ==
    LET medication_id == MedicationId(medication_name)
        properties == IF TruthyStr(dosage) THEN [dosage |-> dosage] ELSE EmptyDict
        r1 == add_node(data, medication_id, "medication", medication_name, properties)
        r2 == add_relationship(r1.data, patient_id, medication_id, "TAKES_MEDICATION", EmptyDict)
    IN  [data |-> r2.data, result |-> Both(r1.result, r2.result)]

AddPatientMedication ==
    \E p \in NodeIds, m \in MedicationNames, d \in Dosages :
        Call("add_patient_medication", [NoArgs EXCEPT !.a = p, !.b = MedicationId(m)],
             add_patient_medication(kg_data, p, m, d))

\* ---------------------------------------- bulk_link_articles_to_conditions
ValidLinkItems ==
    { [article_id |-> "medication_lisinopril", condition_id |-> "condition_hypertension"] }
InvalidLinkItems ==
    { [condition_id |-> "condition_hypertension"],
      [article_id |-> "article_unknown", condition_id |-> "condition_hypertension"] }


RECURSIVE bulk_link_loop(_, _, _, _)
bulk_link_loop(acc, graph, links, i) ==
    IF i > Len(links) THEN acc
    ELSE LET link == links[i]
             fail(msg) == bulk_link_loop(
                              [acc EXCEPT !.errors = Append(@, <<i - 1, msg>>)],
                              graph, links, i + 1)
         IN
         IF "article_id" \notin DOMAIN link THEN fail("missing article_id")
         ELSE IF "condition_id" \notin DOMAIN link THEN fail("missing condition_id")
         ELSE IF ~has_node(graph, link["article_id"]) THEN fail("article does not exist")
         ELSE IF ~has_node(graph, link["condition_id"]) THEN fail("condition does not exist")
         ELSE LET confidence == Get(link, "confidence", None)
                  properties == IF confidence # None
                                THEN [relevance |-> Get(link, "relevance", "related"),
                                      confidence |-> confidence]
                                ELSE [relevance |-> Get(link, "relevance", "related")]
              IN bulk_link_loop(
                     [acc EXCEPT !.relationships = Append(@,
                         [source_id |-> link["article_id"],
                          target_id |-> link["condition_id"],
                          relationship_type |-> "STUDIES",
                          properties |-> properties])],
                     graph, links, i + 1)

bulk_link_articles_to_conditions(data, links) ==
    LET graph == get_graph(data)
        r == bulk_link_loop([relationships |-> <<>>, errors |-> <<>>], graph, links, 1)
    IN  IF r.relationships # <<>>
        THEN LET inner == bulk_add_relationships(data, r.relationships)
             IN  [data |-> inner.data,
                  result |-> [inner.result EXCEPT
                                 !.errors_total = @ + Len(r.errors),
                                 !.errors_shown = @ \o Shown(r.errors)]]
        ELSE [data |-> data,
              result |-> [Err("no_valid_links") EXCEPT
                             !.errors_total = Len(r.errors),
                             !.errors_shown = r.errors]]

BulkLinkArticlesToConditions ==
    \E links \in SeqsUpTo(ValidLinkItems \cup InvalidLinkItems, MaxBatch)
                 \cup LongBatches(InvalidLinkItems) :
        Call("bulk_link_articles_to_conditions", [NoArgs EXCEPT !.batch = links],
             bulk_link_articles_to_conditions(kg_data, links))

\* ------------------------------------------------------------ delete_node
delete_node(data, node_id) ==
    LET graph == get_graph(data) IN
    IF ~has_node(graph, node_id)
    THEN [data |-> data, result |-> Err("node_not_found")]
    ELSE LET total_edges == Cardinality(in_edges(graph, node_id))
                            + Cardinality(out_edges(graph, node_id))
         IN  [data |-> save_graph(nx_remove_node(graph, node_id)),
              result |-> [Response EXCEPT !.edges_removed = total_edges]]

DeleteNode ==
    \E n \in NodeIds :
        Call("delete_node", [NoArgs EXCEPT !.a = n], delete_node(kg_data, n))

\* ---------------------------------------------------- delete_relationship
delete_relationship(data, source_node, target_node) ==
    LET graph == get_graph(data) IN
    IF ~has_node(graph, source_node)
    THEN [data |-> data, result |-> Err("source_not_found")]
    ELSE IF ~has_node(graph, target_node)
    THEN [data |-> data, result |-> Err("target_not_found")]
    ELSE IF ~has_edge(graph, source_node, target_node)
    THEN [data |-> data, result |-> Err("edge_not_found")]
    ELSE [data |-> save_graph(nx_remove_edge(graph, source_node, target_node)),
          result |-> Response]

DeleteRelationship ==
    \E s \in NodeIds, t \in NodeIds :
        Call("delete_relationship", [NoArgs EXCEPT !.a = s, !.b = t],
             delete_relationship(kg_data, s, t))

\* -------------------------------------------------- merge_duplicate_nodes
\* A merge in which the duplicate's values overwrite the primary's.
merge_attributes_overwrite(primary_data, duplicate_data) ==
    Update(primary_data, duplicate_data)

\* for key, value in duplicate_data.items():
\*     if key not in primary_data or primary_data[key] is None: copy it
merge_attributes(primary_data, duplicate_data) ==
    [k \in DOMAIN primary_data \cup DOMAIN duplicate_data |->
        IF k \in DOMAIN duplicate_data
           /\ (k \notin DOMAIN primary_data \/ primary_data[k] = None)
        THEN duplicate_data[k]
        ELSE primary_data[k]]

\* A transfer that does not look for an existing edge on the primary.
RECURSIVE transfer_in_edges_overwrite(_, _, _, _)
transfer_in_edges_overwrite(acc, todo, primary, duplicate) ==
    IF todo = {} THEN acc
    ELSE LET e == CHOOSE x \in todo : TRUE
             source == e[1]
             rest == todo \ {e}
         IN  IF source # primary
             THEN transfer_in_edges_overwrite(
                      [graph |-> nx_add_edge(acc.graph, source, primary,
                                             acc.graph.edges[<<source, duplicate>>]),
                       edges_transferred |-> acc.edges_transferred + 1],
                      rest, primary, duplicate)
             ELSE transfer_in_edges_overwrite(acc, rest, primary, duplicate)

\* The loop over list(graph.in_edges(duplicate)): todo is what is left of
\* the list taken before the loop started.
RECURSIVE transfer_in_edges(_, _, _, _)
transfer_in_edges(acc, todo, primary, duplicate) ==
    IF todo = {} THEN acc
    ELSE LET e == CHOOSE x \in todo : TRUE
             source == e[1]
             rest == todo \ {e}
         IN  IF source # primary /\ ~has_edge(acc.graph, source, primary)
             THEN transfer_in_edges(
                      [graph |-> nx_add_edge(acc.graph, source, primary,
                                             acc.graph.edges[<<source, duplicate>>]),
                       edges_transferred |-> acc.edges_transferred + 1],
                      rest, primary, duplicate)
             ELSE transfer_in_edges(acc, rest, primary, duplicate)

\* The loop over list(graph.out_edges(duplicate)).
RECURSIVE transfer_out_edges(_, _, _, _)
transfer_out_edges(acc, todo, primary, duplicate) ==
    IF todo = {} THEN acc
    ELSE LET e == CHOOSE x \in todo : TRUE
             target == e[2]
             rest == todo \ {e}
         IN  IF target # primary /\ ~has_edge(acc.graph, primary, target)
             THEN transfer_out_edges(
                      [graph |-> nx_add_edge(acc.graph, primary, target,
                                             acc.graph.edges[<<duplicate, target>>]),
                       edges_transferred |-> acc.edges_transferred + 1],
                      rest, primary, duplicate)
             ELSE transfer_out_edges(acc, rest, primary, duplicate)

merge_duplicate_nodes(data, primary_node_id, duplicate_node_id) ==
    LET graph == get_graph(data) IN
    IF ~has_node(graph, primary_node_id)
    THEN [data |-> data, result |-> Err("primary_not_found")]
    ELSE IF ~has_node(graph, duplicate_node_id)
    THEN [data |-> data, result |-> Err("duplicate_not_found")]
    ELSE IF primary_node_id = duplicate_node_id
    THEN [data |-> data, result |-> Err("same_node")]
    ELSE LET primary_data == graph.nodes[primary_node_id]
             duplicate_data == graph.nodes[duplicate_node_id]
             g1 == [graph EXCEPT !.nodes[primary_node_id] =
                        Update(@, merge_attributes(primary_data, duplicate_data))]
             r2 == transfer_in_edges([graph |-> g1, edges_transferred |-> 0],
                                     in_edges(g1, duplicate_node_id),
                                     primary_node_id, duplicate_node_id)
             r3 == transfer_out_edges(r2, out_edges(r2.graph, duplicate_node_id),
                                      primary_node_id, duplicate_node_id)
             g4 == nx_remove_node(r3.graph, duplicate_node_id)
         IN  [data |-> save_graph(g4),
              result |-> [Response EXCEPT
                             !.edges_transferred = r3.edges_transferred,
                             !.merged_attributes = DOMAIN duplicate_data]]

MergeDuplicateNodes ==
    \E p \in NodeIds, d \in NodeIds :
        Call("merge_duplicate_nodes", [NoArgs EXCEPT !.a = p, !.b = d],
             merge_duplicate_nodes(kg_data, p, d))

\* ------------------------------------------------------- read operations
\* One call of a tool that never reaches _save_graph: kg_data stays as it is.
Read(op, args, result) ==
    /\ pre' = kg_data
    /\ last' = [op |-> op, a |-> args.a, b |-> args.b, batch |-> args.batch,
                rel |-> args.rel, props |-> args.props, result |-> result]
    /\ UNCHANGED <<kg_data, calls, others>>

\* graph.degree(n): in-degree plus out-degree (a self-loop counts twice)
degree(G, n) == Cardinality(in_edges(G, n)) + Cardinality(out_edges(G, n))

\* graph.neighbors(n) / graph.predecessors(n)
neighbors(G, n) == {e[2] : e \in out_edges(G, n)}
predecessors(G, n) == {e[1] : e \in in_edges(G, n)}

\* the nodes reachable from S when the direction of the edges is ignored
RECURSIVE weak_component(_, _)
weak_component(G, S) ==
    LET S1 == S \cup {e[2] : e \in {x \in DOMAIN G.edges : x[1] \in S}}
                 \cup {e[1] : e \in {x \in DOMAIN G.edges : x[2] \in S}}
    IN  IF S1 = S THEN S ELSE weak_component(G, S1)

\* nx.number_weakly_connected_components(graph)
RECURSIVE number_weakly_connected_components(_, _)
number_weakly_connected_components(G, todo) ==
    IF todo = {} THEN 0
    ELSE LET n == CHOOSE x \in todo : TRUE
         IN  1 + number_weakly_connected_components(G, todo \ weak_component(G, {n}))

\* nx.is_weakly_connected(graph), for a graph with at least one node
is_weakly_connected(G) ==
    number_weakly_connected_components(G, DOMAIN G.nodes) = 1

\* validate_graph_structure: the issues and warnings are kept by their kind,
\* in the order in which the code appends them.
validate_graph_structure(data) ==
    LET graph == get_graph(data)
        patient_nodes == {n \in DOMAIN graph.nodes :
                            Get(graph.nodes[n], "node_type", None) = "patient"}
        orphaned == {n \in DOMAIN graph.nodes : degree(graph, n) = 0}
        missing_labels == {n \in DOMAIN graph.nodes :
                            ~TruthyStr(Get(graph.nodes[n], "label", None))}
        issues == (IF patient_nodes = {} THEN <<"no_patient">> ELSE <<>>)
                  \o (IF ~is_weakly_connected(graph) THEN <<"disconnected">> ELSE <<>>)
        warnings == (IF Cardinality(patient_nodes) > 1
                     THEN <<"multiple_patients">> ELSE <<>>)
                    \o (IF orphaned # {} THEN <<"orphaned">> ELSE <<>>)
                    \o (IF missing_labels # {} THEN <<"missing_labels">> ELSE <<>>)
    IN  IF number_of_nodes(graph) = 0 THEN NotInitialized
        ELSE [Response EXCEPT !.view =
                 [is_valid |-> Len(issues) = 0,
                  critical_issues |-> issues,
                  warnings |-> warnings,
                  total_issues |-> Len(issues),
                  total_warnings |-> Len(warnings)]]

ValidateGraphStructure ==
    Read("validate_graph_structure", NoArgs, validate_graph_structure(kg_data))

RECURSIVE SumOver(_, _)
SumOver(S, f) ==
    IF S = {} THEN 0
    ELSE LET x == CHOOSE y \in S : TRUE IN f[x] + SumOver(S \ {x}, f)

\* An overview that tests the medications against the edge type of the
\* conditions.
get_patient_overview_one_edge_type(data, patient_id) ==
    LET graph == get_graph(data)
        typed(t, r) == {n \in neighbors(graph, patient_id) :
                          /\ Get(graph.nodes[n], "node_type", None) = t
                          /\ Get(graph.edges[<<patient_id, n>>], "relationship_type", None) = r}
    IN  IF number_of_nodes(graph) = 0 THEN NotInitialized
        ELSE IF ~has_node(graph, patient_id) THEN Err("patient_not_found")
        ELSE [Response EXCEPT !.view =
                 [patient_id |-> patient_id,
                  conditions |-> typed("condition", "HAS_CONDITION"),
                  medications |-> typed("medication", "HAS_CONDITION"),
                  research_articles_count |-> 0,
                  total_nodes |-> number_of_nodes(graph),
                  total_relationships |-> number_of_edges(graph)]]

\* get_patient_overview: conditions and medications are the ids of the
\* entries of the two lists (their order is the adjacency order, which the
\* node-link form does not fix).
get_patient_overview(data, patient_id) ==
    LET graph == get_graph(data)
        typed(t, r) == {n \in neighbors(graph, patient_id) :
                          /\ Get(graph.nodes[n], "node_type", None) = t
                          /\ Get(graph.edges[<<patient_id, n>>], "relationship_type", None) = r}
        conditions == typed("condition", "HAS_CONDITION")
        medications == typed("medication", "TAKES_MEDICATION")
        articles == [c \in conditions |->
                        Cardinality({pr \in predecessors(graph, c) :
                            Get(graph.nodes[pr], "node_type", None) = "research_article"})]
    IN  IF number_of_nodes(graph) = 0 THEN NotInitialized
        ELSE IF ~has_node(graph, patient_id) THEN Err("patient_not_found")
        ELSE [Response EXCEPT !.view =
                 [patient_id |-> patient_id,
                  conditions |-> conditions,
                  medications |-> medications,
                  research_articles_count |-> SumOver(conditions, articles),
                  total_nodes |-> number_of_nodes(graph),
                  total_relationships |-> number_of_edges(graph)]]

GetPatientOverview ==
    \E p \in NodeIds :
        Read("get_patient_overview", [NoArgs EXCEPT !.a = p],
             get_patient_overview(kg_data, p))

Next ==
    \/ InitializePatientGraph
    \/ AddNode
    \/ BulkAddNodes
    \/ AddRelationship
    \/ BulkAddRelationships
    \/ AddPatientCondition
    \/ AddPatientMedication
    \/ BulkLinkArticlesToConditions
    \/ DeleteNode
    \/ DeleteRelationship
    \/ MergeDuplicateNodes

Spec == Init /\ [][Next]_vars

\* A session that builds the graph node by node and edge by edge, in bulk or
\* singly, and inspects it between the calls.
ReadNext ==
    \/ InitializePatientGraph
    \/ AddNode
    \/ BulkAddNodes
    \/ AddRelationship
    \/ BulkAddRelationships
    \/ DeleteNode
    \/ ValidateGraphStructure
    \/ GetPatientOverview

ReadSpec == Init /\ [][ReadNext]_vars

\* ------------------------------------------------------ files on disk
\* A path is output_dir / f"{filename}_{timestamp}{tail}": the base filename,
\* the timestamp (a whole second) and what follows it.
FileNames == {"patient_kg", "review"}
JsonTail == ".json"
GraphmlTail == ".graphml"
SummaryTail == "_summary.txt"
CytoscapeTail == "_cytoscape.json"

\* datetime.datetime.now().strftime("%Y%m%d_%H%M%S"): the time down to the
\* second, without its fraction
strftime(t) == t \div TicksPerSecond

Path(filename, timestamp, tail) == [name |-> filename, ts |-> timestamp, tail |-> tail]

\* Path(filepath).suffix
suffix(path) ==
    IF path.tail \in {JsonTail, CytoscapeTail} THEN ".json"
    ELSE IF path.tail = GraphmlTail THEN ".graphml"
    ELSE ".txt"

\* the key under which this networkx build keeps the edges when the caller
\* names none (save and load both leave it to the library)
NxEdgesKey == "links"

\* A JSON encoder that writes None as an empty string.
json_dump_none_as_empty(d) ==
    [k \in DOMAIN d |-> [t |-> "string", v |-> IF d[k] = None THEN "" ELSE d[k]]]

\* json.dump of a dict of strings and None: None becomes null, a string a
\* JSON string.
json_dump(d) ==
    [k \in DOMAIN d |-> IF d[k] = None THEN [t |-> "null", v |-> ""]
                        ELSE [t |-> "string", v |-> d[k]]]

\* json.load of such an object
json_load(d) ==
    [k \in DOMAIN d |-> IF d[k].t = "null" THEN None ELSE d[k].v]

\* the .json file: json.dump(nx.node_link_data(graph))
json_file(graph) ==
    LET data == node_link_data(graph)
    IN  [kind |-> "node_link", edges_key |-> NxEdgesKey,
         nodes |-> {json_dump(d) : d \in data.nodes},
         edges |-> {json_dump(d) : d \in data.links}]

\* str(value) if value is not None else ""
stringified(attrs) == [k \in DOMAIN attrs |-> IF attrs[k] = None THEN "" ELSE attrs[k]]

\* nx.read_graphml: a data element without text gives no attribute
read_graphml(content) ==
    LET kept(attrs) == Restrict(attrs, {k \in DOMAIN attrs : attrs[k] # ""})
    IN  [nodes |-> [n \in DOMAIN content.nodes |-> kept(content.nodes[n])],
         edges |-> [e \in DOMAIN content.edges |-> kept(content.edges[e])]]

\* open(path, 'w') and write: the file is created or replaced
write_file(fs, path, content) == (path :> content) @@ fs

\* One call of a tool that reads or writes the output directory.
DiskCall(op, args, out) ==
    /\ calls < MaxCalls
    /\ calls' = calls + 1
    /\ pre' = kg_data
    /\ kg_data' = out.data
    /\ files' = out.files
    /\ last' = [op |-> op, a |-> args.a, b |-> args.b, batch |-> args.batch,
                rel |-> args.rel, props |-> args.props, result |-> out.result]
    /\ UNCHANGED <<now, db, db_pre, client, flight>>

\* save_graph_to_disk: three files named after filename and the current
\* second; kg_data is not written.
save_graph_to_disk(data, fs, t, filename) ==
    LET graph == get_graph(data)
        timestamp == strftime(t)
        json_path == Path(filename, timestamp, JsonTail)
        graphml_path == Path(filename, timestamp, GraphmlTail)
        summary_path == Path(filename, timestamp, SummaryTail)
        fs1 == write_file(fs, json_path, json_file(graph))
        \* the .graphml file: the graph with stringified attributes
        graphml_file ==
            [kind |-> "graphml",
             nodes |-> [n \in DOMAIN graph.nodes |-> stringified(graph.nodes[n])],
             edges |-> [e \in DOMAIN graph.edges |-> stringified(graph.edges[e])]]
        \* the _summary.txt file
        summary_file ==
            [kind |-> "summary", total_nodes |-> number_of_nodes(graph),
             total_edges |-> number_of_edges(graph)]
        fs2 == write_file(fs1, graphml_path, graphml_file)
        fs3 == write_file(fs2, summary_path, summary_file)
    IN  IF number_of_nodes(graph) = 0
        THEN [data |-> data, files |-> fs, result |-> NotInitialized]
        ELSE [data |-> data, files |-> fs3,
              result |-> [Response EXCEPT !.view =
                            [files_saved |-> {json_path, graphml_path, summary_path},
                             node_count |-> number_of_nodes(graph),
                             edge_count |-> number_of_edges(graph)]]]

SaveGraphToDisk ==
    \E f \in FileNames :
        DiskCall("save_graph_to_disk", [NoArgs EXCEPT !.a = f],
                 save_graph_to_disk(kg_data, files, now, f))

\* A load that adds the file's graph to the one in the session.
load_graph_from_disk_merge(data, fs, filepath) ==
    LET content == fs[filepath]
        old == get_graph(data)
        loaded == IF suffix(filepath) = ".json"
                  THEN node_link_graph([present |-> TRUE,
                                        nodes |-> {json_load(d) : d \in content.nodes},
                                        links |-> {json_load(d) : d \in content.edges}])
                  ELSE read_graphml(content)
        graph == [nodes |-> loaded.nodes @@ old.nodes, edges |-> loaded.edges @@ old.edges]
    IN  IF filepath \notin DOMAIN fs
        THEN [data |-> data, files |-> fs, result |-> Err("file_not_found")]
        ELSE IF suffix(filepath) \notin {".json", ".graphml"}
        THEN [data |-> data, files |-> fs, result |-> Err("unsupported_format")]
        ELSE IF suffix(filepath) = ".json" /\ content.kind # "node_link"
        THEN [data |-> data, files |-> fs, result |-> Err("load_failed")]
        ELSE [data |-> save_graph(graph), files |-> fs,
              result |-> [Response EXCEPT !.view =
                            [node_count |-> number_of_nodes(graph),
                             edge_count |-> number_of_edges(graph)]]]

\* load_graph_from_disk: a missing file and an unsupported suffix are
\* refused; a .json file that is not in node-link form raises inside the try
\* block (KeyError) and gives the "Error loading graph" response; otherwise
\* the graph read from the file is saved as the session's graph.
load_graph_from_disk(data, fs, filepath) ==
    LET content == fs[filepath]
        readable == content.kind = "node_link" /\ content.edges_key = NxEdgesKey
        graph == IF suffix(filepath) = ".json"
                 THEN node_link_graph([present |-> TRUE,
                                       nodes |-> {json_load(d) : d \in content.nodes},
                                       links |-> {json_load(d) : d \in content.edges}])
                 ELSE read_graphml(content)
    IN  IF filepath \notin DOMAIN fs
        THEN [data |-> data, files |-> fs, result |-> Err("file_not_found")]
        ELSE IF suffix(filepath) \notin {".json", ".graphml"}
        THEN [data |-> data, files |-> fs, result |-> Err("unsupported_format")]
        ELSE IF suffix(filepath) = ".json" /\ ~readable
        THEN [data |-> data, files |-> fs, result |-> Err("load_failed")]
        ELSE [data |-> save_graph(graph), files |-> fs,
              result |-> [Response EXCEPT !.view =
                            [node_count |-> number_of_nodes(graph),
                             edge_count |-> number_of_edges(graph)]]]

LoadGraphFromDisk ==
    \E path \in DOMAIN files \cup {Path("missing", 0, JsonTail)} :
        DiskCall("load_graph_from_disk", [NoArgs EXCEPT !.a = path],
                 load_graph_from_disk(kg_data, files, path))

\* export_graph_as_cytoscape_json: one file named after filename and the
\* current second
export_graph_as_cytoscape_json(data, fs, t, filename) ==
    LET graph == get_graph(data)
        output_path == Path(filename, strftime(t), CytoscapeTail)
        \* the Cytoscape.js document: one data dict per node and per edge (the
        \* running edge_<i> id of an edge is left out)
        cytoscape_file ==
            [kind |-> "cytoscape",
             nodes |-> {Update([id |-> n, label |-> Get(graph.nodes[n], "label", n),
                                type |-> Get(graph.nodes[n], "node_type", "unknown")],
                               Restrict(graph.nodes[n],
                                        DOMAIN graph.nodes[n] \ {"label", "node_type"}))
                          : n \in DOMAIN graph.nodes},
             edges |-> {Update([source |-> e[1], target |-> e[2],
                                label |-> Get(graph.edges[e], "relationship_type", "")],
                               Restrict(graph.edges[e],
                                        DOMAIN graph.edges[e] \ {"relationship_type"}))
                          : e \in DOMAIN graph.edges}]
    IN  IF number_of_nodes(graph) = 0
        THEN [data |-> data, files |-> fs, result |-> NotInitialized]
        ELSE [data |-> data, files |-> write_file(fs, output_path, cytoscape_file),
              result |-> [Response EXCEPT !.view =
                            [files_saved |-> {output_path},
                             node_count |-> number_of_nodes(graph),
                             edge_count |-> number_of_edges(graph)]]]

ExportGraphAsCytoscapeJson ==
    \E f \in FileNames :
        DiskCall("export_graph_as_cytoscape_json", [NoArgs EXCEPT !.a = f],
                 export_graph_as_cytoscape_json(kg_data, files, now, f))

\* Time passes between two calls.
Tick ==
    /\ now < MaxClock
    /\ now' = now + 1
    /\ UNCHANGED <<kg_data, pre, last, calls, files, db, db_pre, client, flight>>

\* A session that builds a graph, saves and exports it and loads files back.
DiskNext ==
    \/ InitializePatientGraph
    \/ AddNode
    \/ AddRelationship
    \/ DeleteNode
    \/ SaveGraphToDisk
    \/ LoadGraphFromDisk
    \/ ExportGraphAsCytoscapeJson
    \/ Tick

DiskSpec == Init /\ [][DiskNext]_vars

\* ------------------------------------------------------- neo4j_client
\* get_driver is a check of the module global followed by an assignment,
\* with no lock: the callers are interleaved between its statements.

\* A session enters get_driver (directly or through get_session).
GetDriverCall(t) ==
    /\ client.pc[t] = "idle"
    /\ calls < MaxCalls
    /\ calls' = calls + 1
    /\ client' = [client EXCEPT !.pc[t] = "check"]
    /\ UNCHANGED <<kg_data, pre, last, files, now, db, db_pre, flight>>

\* if _driver is None:
GetDriverCheck(t) ==
    /\ client.pc[t] = "check"
    /\ client' = [client EXCEPT !.pc[t] = IF client.driver = NoDriver
                                          THEN "create" ELSE "return"]
    /\ UNCHANGED <<kg_data, pre, last, calls, files, now, db, db_pre, flight>>

\* if not all([uri, username, password]): raise RuntimeError(...)
\* _driver = GraphDatabase.driver(uri, auth=(username, password))
GetDriverCreate(t) ==
    /\ client.pc[t] = "create"
    /\ client' = IF ~client.configured
                 THEN [client EXCEPT !.pc[t] = "idle"]
                 ELSE [client EXCEPT !.made = @ + 1,
                                     !.driver = client.made + 1,
                                     !.opened = @ \cup {client.made + 1},
                                     !.pc[t] = "return"]
    /\ UNCHANGED <<kg_data, pre, last, calls, files, now, db, db_pre, flight>>

\* return _driver
GetDriverReturn(t) ==
    /\ client.pc[t] = "return"
    /\ client' = [client EXCEPT !.got[t] = client.driver, !.pc[t] = "idle"]
    /\ UNCHANGED <<kg_data, pre, last, calls, files, now, db, db_pre, flight>>

\* close_driver: closes the driver the global holds and resets the global
CloseDriver(t) ==
    /\ client.pc[t] = "idle"
    /\ calls < MaxCalls
    /\ calls' = calls + 1
    /\ client' = IF client.driver # NoDriver
                 THEN [client EXCEPT !.opened = @ \ {client.driver},
                                     !.driver = NoDriver]
                 ELSE client
    /\ UNCHANGED <<kg_data, pre, last, files, now, db, db_pre, flight>>

ClientNext ==
    \E t \in Sessions :
        \/ GetDriverCall(t)
        \/ GetDriverCheck(t)
        \/ GetDriverCreate(t)
        \/ GetDriverReturn(t)
        \/ CloseDriver(t)

ClientSpec == Init /\ [][ClientNext]_vars

\* ------------------------------------------------------- neo4j_kg_tools
\* Every tool opens a session (get_session) and sends its Cypher with
\* session.run, i.e. one auto-commit transaction per statement: a statement
\* that raises leaves the database as it was before that statement.

\* get_driver run by one caller without interruption; without credentials
\* and without a driver it raises RuntimeError and leaves the module as it is
get_driver(c) ==
    IF c.driver = NoDriver /\ c.configured
    THEN [c EXCEPT !.made = @ + 1, !.driver = c.made + 1, !.opened = @ \cup {c.made + 1}]
    ELSE c

\* datetime()
datetime(t) == ToString(t)

\* MATCH (n:label {key: value}): a null value matches nothing
match_nodes(D, label, key, value) ==
    {i \in DOMAIN D.nodes :
        /\ D.nodes[i].label = label
        /\ key \in DOMAIN D.nodes[i].props
        /\ D.nodes[i].props[key] = value
        /\ value # None}

\* SET n += map / SET n.k = v: a key set to null is removed
cypher_set(props, m) ==
    LET u == Update(props, m)
    IN  Restrict(u, {k \in DOMAIN u : u[k] # None})

\* MERGE (n:label {key: value}): creates the node when no node matches
merge_node(D, label, key, value) ==
    LET fresh == IF DOMAIN D.nodes = {} THEN 1
                 ELSE 1 + CHOOSE i \in DOMAIN D.nodes : \A j \in DOMAIN D.nodes : j <= i
    IN
    IF match_nodes(D, label, key, value) # {} THEN D
    ELSE [D EXCEPT !.nodes =
             (fresh :> [label |-> label, props |-> (key :> value)])
                 @@ D.nodes]

\* SET on the nodes bound to a variable
set_nodes(D, ids, m) ==
    [D EXCEPT !.nodes = [i \in DOMAIN D.nodes |->
                            IF i \in ids
                            THEN [D.nodes[i] EXCEPT !.props = cypher_set(@, m)]
                            ELSE D.nodes[i]]]

\* MERGE (a)-[r:type]->(b) for every bound pair, then SET r += m
merge_rels(D, froms, type, tos, m) ==
    LET bound == {<<f, type, t>> : f \in froms, t \in tos}
    IN  [D EXCEPT !.rels = [e \in DOMAIN D.rels \cup bound |->
                               IF e \in bound
                               THEN cypher_set(IF e \in DOMAIN D.rels THEN D.rels[e]
                                               ELSE EmptyDict, m)
                               ELSE D.rels[e]]]

\* the tool's return value: done (a message without "Error"), nothing (the
\* "Error: ..." message of an empty result) or an exception
Done(D) == [db |-> D, result |-> Response]
Nothing(D, kind) == [db |-> D, result |-> Err(kind)]
Raised(D) == [db |-> D, result |-> Err("exception")]

\* One durable call: the session's driver is fetched, the statements run.
\* No tool catches what get_session or session.run raise: the RuntimeError
\* of get_driver and the ServiceUnavailable of a server that does not answer
\* leave the tool as exceptions, with nothing written.
DurableCall(op, args, out) ==
    LET met == IF get_driver(client).driver = NoDriver
               THEN [db |-> db, result |-> Err("RuntimeError")]
               ELSE IF ~client.reachable
               THEN [db |-> db, result |-> Err("ServiceUnavailable")]
               ELSE out
    IN
    /\ calls < MaxDurableCalls
    /\ calls' = calls + 1
    /\ client' = get_driver(client)
    /\ db_pre' = db
    /\ db' = met.db
    /\ last' = [op |-> op, a |-> args.a, b |-> args.b, batch |-> args.batch,
                rel |-> args.rel, props |-> args.props, result |-> met.result]
    /\ UNCHANGED <<kg_data, pre, files, now, flight>>

\* neo4j_initialize_patient_graph: MERGE the patient, SET its fields
neo4j_initialize_patient_graph ==
    \E patient_id \in PatientIds, patient_name \in PatientNames :
        LET D1 == merge_node(db, "Patient", "patient_id", patient_id)
            p  == match_nodes(D1, "Patient", "patient_id", patient_id)
        IN  DurableCall("neo4j_initialize_patient_graph", [NoArgs EXCEPT !.a = patient_id],
                        Done(set_nodes(D1, p, [name |-> patient_name,
                                               created_at |-> datetime(now),
                                               updated_at |-> datetime(now)])))

\* MERGE the entity and SET its fields, then MATCH the patient and MERGE the
\* relationship: without the patient the statement returns no row, the entity
\* stays.
add_entity(D, t, patient_id, label, key, id, fields, rel_type) ==
    LET D1 == merge_node(D, label, key, id)
        c  == match_nodes(D1, label, key, id)
        D2 == set_nodes(D1, c, Update(fields, [created_at |-> datetime(t),
                                               updated_at |-> datetime(t)]))
        p  == match_nodes(D2, "Patient", "patient_id", patient_id)
    IN  IF p = {} THEN Nothing(D2, "no_record")
        ELSE Done(merge_rels(D2, p, rel_type, c, [created_at |-> datetime(t)]))

DurableConditionIds == {"C001"}

neo4j_add_condition ==
    \E patient_id \in PatientIds, condition_id \in DurableConditionIds,
       condition_name \in ConditionNames, icd_code \in IcdCodes :
        DurableCall("neo4j_add_condition",
                    [NoArgs EXCEPT !.a = patient_id, !.b = condition_id],
                    add_entity(db, now, patient_id, "Condition", "condition_id",
                               condition_id,
                               [label |-> condition_name, name |-> condition_name,
                                icd_code |-> icd_code, symptoms |-> None],
                               "HAS_CONDITION"))

neo4j_add_medication ==
    \E patient_id \in PatientIds, medication_id \in {"M001"},
       medication_name \in MedicationNames, dosage \in Dosages :
        DurableCall("neo4j_add_medication",
                    [NoArgs EXCEPT !.a = patient_id, !.b = medication_id],
                    add_entity(db, now, patient_id, "Medication", "medication_id",
                               medication_id,
                               [label |-> medication_name, name |-> medication_name,
                                dosage |-> dosage, frequency |-> None,
                                side_effects |-> None],
                               "TAKES_MEDICATION"))

\* MERGE a node that stands alone and SET its fields
add_document(D, t, label, key, id, title) ==
    LET D1 == merge_node(D, label, key, id)
        a  == match_nodes(D1, label, key, id)
    IN  Done(set_nodes(D1, a, [title |-> title, label |-> title, url |-> None,
                               created_at |-> datetime(t), updated_at |-> datetime(t)]))

ArticleIds == {"A001"}

neo4j_add_research_article ==
    \E article_id \in ArticleIds, article_title \in {"ACE inhibitors in hypertension"} :
        DurableCall("neo4j_add_research_article", [NoArgs EXCEPT !.a = article_id],
                    add_document(db, now, "ResearchArticle", "article_id",
                                 article_id, article_title))

neo4j_add_clinical_trial ==
    \E trial_id \in {"NCT001"}, trial_title \in {"Lisinopril dosing trial"} :
        DurableCall("neo4j_add_clinical_trial", [NoArgs EXCEPT !.a = trial_id],
                    add_document(db, now, "ClinicalTrial", "trial_id",
                                 trial_id, trial_title))

\* MATCH both ends, MERGE the relationship between them and SET its fields;
\* the rows are the pairs of matched ends.
link(D, t, from_label, from_key, from_id, to_label, to_key, to_id, rel_type, fields) ==
    LET a == match_nodes(D, from_label, from_key, from_id)
        c == match_nodes(D, to_label, to_key, to_id)
    IN  [db   |-> merge_rels(D, a, rel_type, c, Update(fields, [created_at |-> datetime(t)])),
         rows |-> Cardinality(a) * Cardinality(c)]

neo4j_link_article_to_condition ==
    \E article_id \in ArticleIds, condition_id \in DurableConditionIds,
       relevance \in {"related", "treatment"} :
        LET r == link(db, now, "ResearchArticle", "article_id", article_id,
                      "Condition", "condition_id", condition_id, "STUDIES",
                      [relevance |-> relevance, confidence |-> None])
        IN  DurableCall("neo4j_link_article_to_condition",
                        [NoArgs EXCEPT !.a = article_id, !.b = condition_id,
                                       !.rel = relevance],
                        IF r.rows = 0 THEN Nothing(db, "no_record") ELSE Done(r.db))

CustomNodeIds == {"PR001"}
CustomLabels == {"Practitioner"}
CustomRelTypes == {"WORKS_WITH"}

\* neo4j_create_custom_node: MERGE on id = node_id, then
\* SET n += {'id': node_id, **properties} on the merged node
neo4j_create_custom_node ==
    \E node_id \in CustomNodeIds, node_label \in CustomLabels,
       properties \in {[name |-> "Dr. Sarah Johnson"], [id |-> "PR002"]} :
        LET D1 == merge_node(db, node_label, "id", node_id)
            n  == match_nodes(D1, node_label, "id", node_id)
            all_properties == Update([id |-> node_id], properties)
            D2 == set_nodes(D1, n, all_properties)
        IN  DurableCall("neo4j_create_custom_node",
                        [NoArgs EXCEPT !.a = node_id, !.b = node_label,
                                       !.props = properties],
                        Done(set_nodes(D2, n, [created_at |-> datetime(now)])))

\* neo4j_create_custom_relationship: both ends matched on their id
neo4j_create_custom_relationship ==
    \E from_id \in CustomNodeIds \cup {"PR002"}, to_id \in CustomNodeIds,
       l \in CustomLabels, relationship_type \in CustomRelTypes :
        LET r == link(db, now, l, "id", from_id, l, "id", to_id,
                      relationship_type, EmptyDict)
        IN  DurableCall("neo4j_create_custom_relationship",
                        [NoArgs EXCEPT !.a = from_id, !.b = to_id,
                                       !.rel = relationship_type],
                        IF r.rows = 0 THEN Nothing(db, "no_record") ELSE Done(r.db))

\* ------------------------------------------------- durable bulk tools
\* What one row of UNWIND $items AS item does in each of the bulk statements;
\* MERGE on a null key raises.
unwind_row(D, t, kind, ctx, item) ==
    CASE kind = "conditions" ->
            IF Get(item, "condition_id", None) = None THEN [db |-> D, ok |-> FALSE]
            ELSE LET D1 == merge_node(D, "Condition", "condition_id", item["condition_id"])
                     c  == match_nodes(D1, "Condition", "condition_id", item["condition_id"])
                     D2 == set_nodes(D1, c,
                              [label |-> Get(item, "condition_name", None),
                               name |-> Get(item, "condition_name", None),
                               icd_code |-> Get(item, "icd_code", None),
                               symptoms |-> Get(item, "symptoms", None),
                               created_at |-> datetime(t), updated_at |-> datetime(t)])
                 IN  [db |-> merge_rels(D2, ctx, "HAS_CONDITION", c,
                                        [created_at |-> datetime(t)]),
                      ok |-> TRUE]
      [] kind = "medications" ->
            IF Get(item, "medication_id", None) = None THEN [db |-> D, ok |-> FALSE]
            ELSE LET D1 == merge_node(D, "Medication", "medication_id", item["medication_id"])
                     m  == match_nodes(D1, "Medication", "medication_id", item["medication_id"])
                     D2 == set_nodes(D1, m,
                              [label |-> Get(item, "medication_name", None),
                               name |-> Get(item, "medication_name", None),
                               dosage |-> Get(item, "dosage", None),
                               frequency |-> Get(item, "frequency", None),
                               side_effects |-> Get(item, "side_effects", None),
                               created_at |-> datetime(t), updated_at |-> datetime(t)])
                 IN  [db |-> merge_rels(D2, ctx, "TAKES_MEDICATION", m,
                                        [created_at |-> datetime(t)]),
                      ok |-> TRUE]
      [] kind = "article_conditions" ->
            [db |-> link(D, t, "ResearchArticle", "article_id", Get(item, "article_id", None),
                         "Condition", "condition_id", Get(item, "condition_id", None),
                         "STUDIES",
                         [relevance |-> Get(item, "relevance", "related"),
                          confidence |-> Get(item, "confidence", None)]).db,
             ok |-> TRUE]
      [] kind = "article_medications" ->
            [db |-> link(D, t, "ResearchArticle", "article_id", Get(item, "article_id", None),
                         "Medication", "id", Get(item, "medication_id", None),
                         "INFORMS_MEDICATION_MANAGEMENT",
                         [medication_name |-> Get(item, "medication_name", None),
                          relevance |-> Get(item, "relevance", "general"),
                          confidence |-> Get(item, "confidence", None),
                          notes |-> Get(item, "notes", None)]).db,
             ok |-> TRUE]
      [] kind = "custom_nodes" ->
            IF Get(item, "id", None) = None THEN [db |-> D, ok |-> FALSE]
            ELSE LET D1 == merge_node(D, ctx, "id", item["id"])
                     n  == match_nodes(D1, ctx, "id", item["id"])
                 IN  [db |-> set_nodes(set_nodes(D1, n, item), n,
                                       [created_at |-> datetime(t)]),
                      ok |-> TRUE]

\* the rows of one UNWIND statement, in order
RECURSIVE unwind(_, _, _, _, _, _)
unwind(D, t, kind, ctx, items, i) ==
    IF i > Len(items) THEN [db |-> D, ok |-> TRUE]
    ELSE LET r == unwind_row(D, t, kind, ctx, items[i])
         IN  IF ~r.ok THEN r ELSE unwind(r.db, t, kind, ctx, items, i + 1)

\* session.run of one UNWIND statement: committed when every row went
\* through, rolled back as a whole when a row raised
run_unwind(D, t, kind, ctx, items) ==
    LET r == unwind(D, t, kind, ctx, items, 1)
    IN  IF r.ok THEN Done(r.db) ELSE Raised(D)

\* MATCH (p:Patient ...) comes first: without the patient there is no row
\* to unwind and the statement returns the count 0
neo4j_bulk_add_conditions ==
    \E patient_id \in PatientIds,
       conditions \in SeqsUpTo(
           { [condition_id |-> "C001", condition_name |-> "Hypertension", icd_code |-> "I10"],
             [condition_name |-> "Hypertension", icd_code |-> "I10"] }, MaxBatch) :
        LET p == match_nodes(db, "Patient", "patient_id", patient_id)
        IN  DurableCall("neo4j_bulk_add_conditions",
                        [NoArgs EXCEPT !.a = patient_id, !.batch = conditions],
                        IF p = {} THEN Done(db)
                        ELSE run_unwind(db, now, "conditions", p, conditions))

neo4j_bulk_add_medications ==
    \E patient_id \in PatientIds,
       medications \in SeqsUpTo(
           { [medication_id |-> "M001", medication_name |-> "Lisinopril", dosage |-> "5mg"],
             [medication_name |-> "Lisinopril", dosage |-> "5mg"] }, MaxBatch) :
        LET p == match_nodes(db, "Patient", "patient_id", patient_id)
        IN  DurableCall("neo4j_bulk_add_medications",
                        [NoArgs EXCEPT !.a = patient_id, !.batch = medications],
                        IF p = {} THEN Done(db)
                        ELSE run_unwind(db, now, "medications", p, medications))

neo4j_bulk_link_articles_to_conditions ==
    \E links \in SeqsUpTo({ [article_id |-> "A001", condition_id |-> "C001"],
                            [article_id |-> "A001"] }, MaxBatch) :
        DurableCall("neo4j_bulk_link_articles_to_conditions",
                    [NoArgs EXCEPT !.batch = links],
                    run_unwind(db, now, "article_conditions", {}, links))

neo4j_bulk_link_articles_to_medications ==
    \E links \in SeqsUpTo({ [article_id |-> "A001", medication_id |-> "M001"],
                            [article_id |-> "A001"] }, MaxBatch) :
        DurableCall("neo4j_bulk_link_articles_to_medications",
                    [NoArgs EXCEPT !.batch = links],
                    run_unwind(db, now, "article_medications", {}, links))

neo4j_bulk_create_custom_nodes ==
    \E node_label \in CustomLabels,
       nodes \in SeqsUpTo({ [id |-> "PR001", name |-> "Dr. Sarah Johnson"],
                            [name |-> "Dr. Sarah Johnson"] }, MaxBatch) :
        DurableCall("neo4j_bulk_create_custom_nodes",
                    [NoArgs EXCEPT !.b = node_label, !.batch = nodes],
                    run_unwind(db, now, "custom_nodes", node_label, nodes))

\* The loop of neo4j_bulk_create_custom_relationships: one session.run per
\* item; rel['from_label'] etc. raise KeyError for an item without the field,
\* after the statements of the items before it.
RECURSIVE for_rel_in_relationships(_, _, _, _, _)
for_rel_in_relationships(D, t, relationships, relationship_type, i) ==
    IF i > Len(relationships) THEN Done(D)
    ELSE LET rel == relationships[i] IN
         IF ~({"from_label", "to_label", "from_id", "to_id"} \subseteq DOMAIN rel)
         THEN Raised(D)
         ELSE for_rel_in_relationships(
                  link(D, t, rel["from_label"], "id", rel["from_id"],
                       rel["to_label"], "id", rel["to_id"], relationship_type,
                       Get(rel, "properties", EmptyDict)).db,
                  t, relationships, relationship_type, i + 1)

neo4j_bulk_create_custom_relationships ==
    \E relationship_type \in CustomRelTypes,
       relationships \in SeqsUpTo(
           { [from_id |-> "PR001", from_label |-> "Practitioner",
              to_id |-> "PR001", to_label |-> "Practitioner"],
             [from_id |-> "PR001", to_id |-> "PR001"] }, MaxBatch) :
        DurableCall("neo4j_bulk_create_custom_relationships",
                    [NoArgs EXCEPT !.rel = relationship_type, !.batch = relationships],
                    for_rel_in_relationships(db, now, relationships, relationship_type, 1))

Neo4jNext ==
    \/ neo4j_initialize_patient_graph
    \/ neo4j_add_condition
    \/ neo4j_add_medication
    \/ neo4j_add_research_article
    \/ neo4j_add_clinical_trial
    \/ neo4j_link_article_to_condition
    \/ neo4j_create_custom_node
    \/ neo4j_create_custom_relationship
    \/ neo4j_bulk_add_conditions
    \/ neo4j_bulk_add_medications
    \/ neo4j_bulk_link_articles_to_conditions
    \/ neo4j_bulk_link_articles_to_medications
    \/ neo4j_bulk_create_custom_nodes
    \/ neo4j_bulk_create_custom_relationships

Neo4jSpec == Init /\ [][Neo4jNext]_vars

\* --------------------------------------- one graph held in both stores
\* A patient graph as the tools describe it: the conditions of patient P1,
\* the conditions the one research article studies, and the conditions of a
\* second patient P2 (who exists in the database when the set is not empty).
LogicalGraphs ==
    [conditions : SUBSET {"C001", "C002"},
     studies    : SUBSET {"C001", "C002"},
     other      : SUBSET {"C001", "C002"}]

\* link_article_to_condition: add_relationship(article, condition, 'STUDIES')
link_article_to_condition(data, article_id, condition_id, relevance) ==
    add_relationship(data, article_id, condition_id, "STUDIES", [relevance |-> relevance])

\* kg_data after the in-memory tools have stored g for P1:
\* initialize_patient_graph, add_node and add_relationship(HAS_CONDITION) per
\* condition, add_research_article, link_article_to_condition per studied
\* condition (a link to a condition that is not stored is refused).
memory_of(g) ==
    LET title == "ACE inhibitors in hypertension"
        has(d, c) ==
            IF c \notin g.conditions THEN d
            ELSE add_relationship(
                     add_node(d, c, "condition", "Hypertension", [icd_code |-> "I10"]).data,
                     "P1", c, "HAS_CONDITION", EmptyDict).data
        studies(d, c) ==
            IF c \notin g.studies THEN d
            ELSE link_article_to_condition(d, "article_1", c, "related").data
        d0 == initialize_patient_graph(NoData, "P1", "Alice").data
        d1 == has(has(d0, "C001"), "C002")
        d2 == add_node(d1, "article_1", "research_article", title, [title |-> title]).data
    IN  studies(studies(d2, "C001"), "C002")

\* the database after the durable tools have stored g:
\* neo4j_initialize_patient_graph, neo4j_add_condition per condition of each
\* patient, neo4j_add_research_article, neo4j_link_article_to_condition per
\* studied condition.
durable_of(g) ==
    LET title == "ACE inhibitors in hypertension"
        patient(D, p) ==
            LET D1 == merge_node(D, "Patient", "patient_id", p)
            IN  set_nodes(D1, match_nodes(D1, "Patient", "patient_id", p),
                          [name |-> "Alice", created_at |-> datetime(0),
                           updated_at |-> datetime(0)])
        has(D, p, S, c) ==
            IF c \notin S THEN D
            ELSE add_entity(D, 0, p, "Condition", "condition_id", c,
                            [label |-> "Hypertension", name |-> "Hypertension",
                             icd_code |-> "I10", symptoms |-> None],
                            "HAS_CONDITION").db
        studies(D, c) ==
            IF c \notin g.studies THEN D
            ELSE link(D, 0, "ResearchArticle", "article_id", "A001",
                      "Condition", "condition_id", c, "STUDIES",
                      [relevance |-> "related", confidence |-> None]).db
        D1 == has(has(patient(EmptyDb, "P1"), "P1", g.conditions, "C001"),
                  "P1", g.conditions, "C002")
        D2 == IF g.other = {} THEN D1
              ELSE has(has(patient(D1, "P2"), "P2", g.other, "C001"),
                       "P2", g.other, "C002")
        D3 == add_document(D2, 0, "ResearchArticle", "article_id", "A001", title).db
    IN  studies(studies(D3, "C001"), "C002")

\* the layers of a breadth-first search along the edges: the nodes at
\* distance 1, 2, ... from the start (nx.descendants is their union,
\* nx.shortest_path_length of a node the number of its layer)
RECURSIVE bfs_layers(_, _, _)
bfs_layers(G, seen, frontier) ==
    LET next == {e[2] : e \in {x \in DOMAIN G.edges : x[1] \in frontier}} \ seen
    IN  IF next = {} THEN <<>>
        ELSE <<next>> \o bfs_layers(G, seen \cup next, next)

\* analyze_graph_connectivity: the counts over the nodes reachable from the
\* patient node and the insights, kept by their kind in the order of the
\* code.  patient_nodes[0] is the first patient node in the order of the
\* stored node list, which the set of nodes does not keep: any of them.
analyze_graph_connectivity ==
    LET graph == get_graph(kg_data)
        patient_nodes == {n \in DOMAIN graph.nodes :
                            Get(graph.nodes[n], "node_type", None) = "patient"}
        analysis(patient_id) ==
            LET layers == bfs_layers(graph, {patient_id}, {patient_id})
                reachable == UNION {layers[i] : i \in DOMAIN layers}
                typed(t) == {n \in reachable : Get(graph.nodes[n], "node_type", None) = t}
                research_nodes == typed("research_article") \cup typed("clinical_trial")
                path_length == [n \in research_nodes |->
                                   CHOOSE i \in DOMAIN layers : n \in layers[i]]
                conditions_count == Cardinality(typed("condition"))
                research_articles_count == Cardinality(typed("research_article"))
            IN  [Response EXCEPT !.view =
                    [patient_id |-> patient_id,
                     direct_connections |-> Cardinality(neighbors(graph, patient_id)),
                     total_reachable_nodes |-> Cardinality(reachable),
                     conditions_count |-> conditions_count,
                     research_articles_count |-> research_articles_count,
                     clinical_trials_count |-> Cardinality(typed("clinical_trial")),
                     insights |->
                        (IF conditions_count = 0 THEN <<"no_conditions">> ELSE <<>>)
                        \o (IF research_articles_count = 0
                            THEN <<"no_research_articles">> ELSE <<>>)
                        \o (IF conditions_count > 0 /\ research_articles_count = 0
                            THEN <<"conditions_without_research">> ELSE <<>>)
                        \o (IF SumOver(research_nodes, path_length)
                                  > 3 * Cardinality(research_nodes)
                            THEN <<"research_far">> ELSE <<>>)]]
    IN  IF number_of_nodes(graph) = 0
        THEN Read("analyze_graph_connectivity", NoArgs, NotInitialized)
        ELSE IF patient_nodes = {}
        THEN Read("analyze_graph_connectivity", NoArgs, Err("no_patient"))
        ELSE \E patient_id \in patient_nodes :
                Read("analyze_graph_connectivity", NoArgs, analysis(patient_id))

\* neo4j_get_patient_overview: the patient, its conditions and medications
\* and count(DISTINCT a) over the articles that study one of the conditions;
\* without the patient there is no row and the error payload is returned.
neo4j_get_patient_overview ==
    \E patient_id \in {"P1", "P2"} :
        LET p == match_nodes(db, "Patient", "patient_id", patient_id)
            out(label, type) == {e[3] : e \in {x \in DOMAIN db.rels :
                                    /\ x[1] \in p /\ x[2] = type
                                    /\ db.nodes[x[3]].label = label}}
            c == out("Condition", "HAS_CONDITION")
            m == out("Medication", "TAKES_MEDICATION")
            a == {e[1] : e \in {x \in DOMAIN db.rels :
                                    /\ x[2] = "STUDIES" /\ x[3] \in c
                                    /\ db.nodes[x[1]].label = "ResearchArticle"}}
            ids(S, key) == {Get(db.nodes[n].props, key, None) : n \in S}
        IN  DurableCall("neo4j_get_patient_overview", [NoArgs EXCEPT !.a = patient_id],
                IF p = {} THEN Nothing(db, "patient_not_found")
                ELSE [db |-> db,
                      result |-> [Response EXCEPT !.view =
                          [patient_id |-> patient_id,
                           conditions |-> ids(c, "condition_id"),
                           medications |-> ids(m, "medication_id"),
                           research_articles_count |-> Cardinality(a)]]])

\* neo4j_clear_patient_graph: DETACH DELETE of the patient and of every node
\* the patient has a relationship to, with all relationships of those nodes;
\* the count is returned also when no patient matched.
neo4j_clear_patient_graph ==
    \E patient_id \in {"P1", "P2"} :
        LET p == match_nodes(db, "Patient", "patient_id", patient_id)
            related == {e[3] : e \in {x \in DOMAIN db.rels : x[1] \in p}}
            deleted == p \cup related
            kept == {e \in DOMAIN db.rels : e[1] \notin deleted /\ e[3] \notin deleted}
        IN  DurableCall("neo4j_clear_patient_graph", [NoArgs EXCEPT !.a = patient_id],
                Done([nodes |-> Restrict(db.nodes, DOMAIN db.nodes \ deleted),
                      rels  |-> Restrict(db.rels, kept)]))

\* initialize_neo4j_schema: get_session is outside every try block, each
\* CREATE CONSTRAINT / CREATE INDEX statement inside its own; a statement
\* that raises is printed and skipped, and the message counts the others.
initialize_neo4j_schema ==
    /\ calls < MaxDurableCalls
    /\ calls' = calls + 1
    /\ client' = get_driver(client)
    /\ db_pre' = db
    /\ last' = [op |-> "initialize_neo4j_schema", a |-> None, b |-> None,
                batch |-> <<>>, rel |-> None, props |-> EmptyDict,
                result |-> IF get_driver(client).driver = NoDriver
                           THEN Err("RuntimeError")
                           ELSE [Response EXCEPT !.view =
                                   [constraints_created |->
                                       IF client.reachable
                                       THEN {"Patient.patient_id", "Condition.condition_id",
                                             "Medication.medication_id",
                                             "ResearchArticle.article_id",
                                             "ClinicalTrial.trial_id",
                                             "Patient.name", "Condition.label"}
                                       ELSE {}]]]
    /\ UNCHANGED <<kg_data, pre, files, now, db, flight>>

\* The credentials are set or unset in the environment, the server goes
\* away or comes back.
EnvironmentChange ==
    /\ \E configured \in BOOLEAN, reachable \in BOOLEAN :
          /\ <<configured, reachable>> # <<client.configured, client.reachable>>
          /\ client' = [client EXCEPT !.configured = configured,
                                      !.reachable = reachable]
    /\ UNCHANGED <<kg_data, pre, last, calls, files, now, db, db_pre, flight>>

\* A graph that both stores hold is read from both, analysed and cleared,
\* while the environment of the durable side changes.
SnapshotNext ==
    \/ GetPatientOverview
    \/ analyze_graph_connectivity
    \/ neo4j_get_patient_overview
    \/ neo4j_clear_patient_graph
    \/ initialize_neo4j_schema
    \/ EnvironmentChange

\* Both stores hold the same graph, stored before this session.
SnapshotInit ==
    /\ \E g \in LogicalGraphs :
          /\ kg_data = memory_of(g)
          /\ pre = memory_of(g)
          /\ db = durable_of(g)
          /\ db_pre = durable_of(g)
    /\ NoCallYet

SnapshotSpec == SnapshotInit /\ [][SnapshotNext]_vars

\* ------------------------------------------------------ a call under way
\* The tools are plain functions over tool_context.state: when the runner
\* executes two tool calls of one session side by side, a read runs between
\* the statements of the mutating call.  Every tool loads kg_data once, in
\* _get_graph, works on its own DiGraph, and a mutating tool stores the
\* result in _save_graph.
MaxFlights == 3

\* The values one tool step assigns to tool_context.state['kg_data']:
\* _save_graph is the last statement before the return and assigns the
\* complete serialized graph, a step that returns an error earlier assigns
\* nothing.
stores_nodes_then_links(out) ==
    IF out.result.status = "error" THEN <<>>
    ELSE <<[out.data EXCEPT !.links = {}], out.data>>

stores(out) ==
    IF out.result.status = "error" THEN <<>> ELSE <<out.data>>

\* A mutating tool is called: it loads the graph and computes what it will
\* store.  add_patient_condition and add_patient_medication run two tools
\* one after the other, add_node and add_relationship, each of which stores;
\* the second loads what the first has stored.
FlightBegin ==
    LET begin(op, saves, result) ==
            flight' = [pc |-> "running", op |-> op, before |-> kg_data,
                       after |-> IF saves = <<>> THEN kg_data ELSE saves[Len(saves)],
                       pending |-> saves, result |-> result]
        one(op, out) == begin(op, stores(out), out.result)
        two(op, r1, r2) ==
            begin(op, stores(r1) \o stores(r2), Both(r1.result, r2.result))
    IN  /\ flight.pc = "idle"
        /\ calls < MaxFlights
        /\ calls' = calls + 1
        /\ \/ \E p \in PatientIds, nm \in PatientNames :
                 one("initialize_patient_graph", initialize_patient_graph(kg_data, p, nm))
           \/ \E n \in NodeIds, t \in NodeTypes, l \in NodeLabels :
                 one("add_node", add_node(kg_data, n, t, l, EmptyDict))
           \/ \E nodes \in SeqsUpTo(ValidNodeItems \cup InvalidNodeItems, MaxBatch) :
                 one("bulk_add_nodes", bulk_add_nodes(kg_data, nodes))
           \/ \E relationships \in SeqsUpTo(ValidRelItems \cup InvalidRelItems, MaxBatch) :
                 one("bulk_add_relationships",
                     bulk_add_relationships(kg_data, relationships))
           \/ \E p \in NodeIds, d \in NodeIds :
                 one("merge_duplicate_nodes", merge_duplicate_nodes(kg_data, p, d))
           \/ \E n \in NodeIds :
                 one("delete_node", delete_node(kg_data, n))
           \/ \E p \in PatientIds, c \in ConditionNames :
                 LET r1 == add_node(kg_data, ConditionId(c), "condition", c, EmptyDict)
                 IN  two("add_patient_condition", r1,
                         add_relationship(r1.data, p, ConditionId(c),
                                          "HAS_CONDITION", EmptyDict))
           \/ \E p \in PatientIds, m \in MedicationNames :
                 LET r1 == add_node(kg_data, MedicationId(m), "medication", m, EmptyDict)
                 IN  two("add_patient_medication", r1,
                         add_relationship(r1.data, p, MedicationId(m),
                                          "TAKES_MEDICATION", EmptyDict))
        /\ UNCHANGED <<kg_data, pre, last, files, now, db, db_pre, client>>

\* tool_context.state['kg_data'] = data
FlightSave ==
    /\ flight.pc = "running"
    /\ flight.pending # <<>>
    /\ kg_data' = Head(flight.pending)
    /\ flight' = [flight EXCEPT !.pending = Tail(@)]
    /\ UNCHANGED <<pre, last, calls, files, now, db, db_pre, client>>

\* return f"...": the call is over, what it stored last stays stored
FlightReturn ==
    /\ flight.pc = "running"
    /\ flight.pending = <<>>
    /\ last' = [op |-> flight.op, a |-> None, b |-> None, batch |-> <<>>,
                rel |-> None, props |-> EmptyDict, result |-> flight.result]
    /\ flight' = [pc |-> "idle", op |-> "none", before |-> flight.after,
                  after |-> flight.after, pending |-> <<>>, result |-> Response]
    /\ UNCHANGED <<kg_data, pre, calls, files, now, db, db_pre, client>>

\* One mutating call at a time, with the read tools called at any moment.
FlightNext ==
    \/ FlightBegin
    \/ FlightSave
    \/ FlightReturn
    \/ ValidateGraphStructure
    \/ GetPatientOverview
    \/ analyze_graph_connectivity

FlightSpec == Init /\ [][FlightNext]_vars

\* ------------------------------------------------------------ properties
\* The graph a tool would load now, and the one the last call loaded.
Store == get_graph(kg_data)
StoreBefore == get_graph(pre)

Succeeded == last.result.status = "ok"
Failed == last.result.status = "error"

Ids(data) == {d["id"] : d \in data.nodes}

\* C1: in every reachable state both endpoints of every stored edge are
\* stored nodes, also right after delete_node and merge_duplicate_nodes.
C1_EndpointsExist ==
    \A d \in kg_data.links :
        d["source"] \in Ids(kg_data) /\ d["target"] \in Ids(kg_data)

\* A merge has just removed a duplicate that had edges, and edges remain.
C1_Witness ==
    /\ last.op = "merge_duplicate_nodes" /\ Succeeded
    /\ in_edges(StoreBefore, last.b) \cup out_edges(StoreBefore, last.b) # {}
    /\ kg_data.links # {}
    /\ last.b \notin Ids(kg_data)

Mutations ==
    {"add_node", "bulk_add_nodes", "add_relationship", "bulk_add_relationships",
     "add_patient_condition", "add_patient_medication",
     "bulk_link_articles_to_conditions",
     "delete_node", "delete_relationship", "merge_duplicate_nodes"}

OnEmptyStore == number_of_nodes(StoreBefore) = 0

C3_ErrorLeavesGraph ==
    (last.op \in {"add_patient_condition", "add_patient_medication"} /\ Failed)
        => Store = StoreBefore

\* C4: add_relationship with a source or target that is not a node returns
\* a node-not-found error and leaves the store unchanged.
C4_MissingEndpointRejected ==
    (/\ last.op = "add_relationship"
     /\ (~has_node(StoreBefore, last.a) \/ ~has_node(StoreBefore, last.b)))
        => /\ Failed
           /\ last.result.error \in {"source_not_found", "target_not_found"}
           /\ Store = StoreBefore
           /\ kg_data = pre

\* The source exists, the target does not, and the store already has an edge.
C4_Witness ==
    /\ last.op = "add_relationship"
    /\ has_node(StoreBefore, last.a) /\ ~has_node(StoreBefore, last.b)
    /\ number_of_edges(StoreBefore) > 0
    /\ Failed /\ last.result.error = "target_not_found"

\* The items of a nodes batch that carry node_id, node_type and label.
ValidNodeIdx(batch) ==
    {i \in 1..Len(batch) : {"node_id", "node_type", "label"} \subseteq DOMAIN batch[i]}

\* The items of a relationships batch that carry the three required fields
\* and name two nodes of graph.
ValidRelIdx(batch, graph) ==
    {i \in 1..Len(batch) :
        /\ {"source_id", "target_id", "relationship_type"} \subseteq DOMAIN batch[i]
        /\ has_node(graph, batch[i]["source_id"])
        /\ has_node(graph, batch[i]["target_id"])}

\* C5: on an initialized store a bulk_add_nodes batch of v valid specs with
\* distinct unused ids and k specs missing a required field adds exactly v
\* nodes and reports exactly k errors, wherever the invalid items stand; a
\* bulk_add_relationships item whose endpoints exist is added whatever the
\* other items are, with one error per invalid item.
C5_PartialSuccess ==
    /\ (/\ last.op = "bulk_add_nodes" /\ ~OnEmptyStore
        /\ \A i, j \in ValidNodeIdx(last.batch) :
               i # j => last.batch[i]["node_id"] # last.batch[j]["node_id"]
        /\ \A i \in ValidNodeIdx(last.batch) :
               ~has_node(StoreBefore, last.batch[i]["node_id"]))
          => LET v == Cardinality(ValidNodeIdx(last.batch))
                 k == Len(last.batch) - v
             IN  /\ number_of_nodes(Store) = number_of_nodes(StoreBefore) + v
                 /\ last.result.added = v
                 /\ last.result.errors_total = k
                 /\ \A i \in ValidNodeIdx(last.batch) :
                        has_node(Store, last.batch[i]["node_id"])
    /\ last.op = "bulk_add_relationships"
          => LET valid == ValidRelIdx(last.batch, StoreBefore)
             IN  /\ \A i \in valid :
                        has_edge(Store, last.batch[i]["source_id"], last.batch[i]["target_id"])
                 /\ last.result.added = Cardinality(valid)
                 /\ last.result.errors_total = Len(last.batch) - Cardinality(valid)

\* A nodes batch whose first item is invalid and whose second is valid and new.
C5_Witness ==
    /\ last.op = "bulk_add_nodes" /\ ~OnEmptyStore
    /\ Len(last.batch) = 2
    /\ ValidNodeIdx(last.batch) = {2}
    /\ ~has_node(StoreBefore, last.batch[2]["node_id"])
    /\ number_of_nodes(Store) = number_of_nodes(StoreBefore) + 1
    /\ last.result.errors_total = 1

BulkOps == {"bulk_add_nodes", "bulk_add_relationships", "bulk_link_articles_to_conditions"}

\* C6: the response of every bulk operation lists at most 5 per-item error
\* messages, however many items fail.
C6_ErrorsBounded ==
    last.op \in BulkOps => Len(last.result.errors_shown) <= MaxShownErrors

\* C7: a successful delete_node removes the node and its edges, and
\* edges_removed is the number of edges the store lost.
C7_EdgesRemovedAccurate ==
    (last.op = "delete_node" /\ Succeeded)
        => /\ ~has_node(Store, last.a)
           /\ in_edges(Store, last.a) \cup out_edges(Store, last.a) = {}
           /\ last.result.edges_removed
                  = number_of_edges(StoreBefore) - number_of_edges(Store)

MergeDone == last.op = "merge_duplicate_nodes" /\ Succeeded

\* C8: after a successful merge_duplicate_nodes(P, D): D is gone; for every
\* other node x, (x,P) exists iff (x,P) or (x,D) existed and (P,x) exists
\* iff (P,x) or (D,x) existed; an edge P already had keeps its attributes, a
\* migrated edge carries those of D's edge; P has a self-loop only if it had
\* one before.
C8_MergeEdges ==
    MergeDone =>
        LET P == last.a
            D == last.b
            E0 == StoreBefore.edges
            E == Store.edges
        IN  /\ ~has_node(Store, D)
            /\ \A x \in NodeIds \ {P, D} :
                 /\ <<x, P>> \in DOMAIN E
                       <=> (<<x, P>> \in DOMAIN E0 \/ <<x, D>> \in DOMAIN E0)
                 /\ <<P, x>> \in DOMAIN E
                       <=> (<<P, x>> \in DOMAIN E0 \/ <<D, x>> \in DOMAIN E0)
                 /\ <<x, P>> \in DOMAIN E0 => E[<<x, P>>] = E0[<<x, P>>]
                 /\ <<P, x>> \in DOMAIN E0 => E[<<P, x>>] = E0[<<P, x>>]
                 /\ (<<x, P>> \notin DOMAIN E0 /\ <<x, D>> \in DOMAIN E0)
                       => E[<<x, P>>] = E0[<<x, D>>]
                 /\ (<<P, x>> \notin DOMAIN E0 /\ <<D, x>> \in DOMAIN E0)
                       => E[<<P, x>>] = E0[<<D, x>>]
            /\ <<P, P>> \in DOMAIN E <=> <<P, P>> \in DOMAIN E0
            /\ <<P, P>> \in DOMAIN E0 => E[<<P, P>>] = E0[<<P, P>>]

\* A node x had an edge to P and a different one to D; the merge kept P's.
C8_Witness ==
    /\ MergeDone
    /\ \E x \in NodeIds \ {last.a, last.b} :
          /\ has_edge(StoreBefore, x, last.a) /\ has_edge(StoreBefore, x, last.b)
          /\ StoreBefore.edges[<<x, last.a>>] # StoreBefore.edges[<<x, last.b>>]
          /\ Store.edges[<<x, last.a>>] = StoreBefore.edges[<<x, last.a>>]

\* C9: after a successful merge_duplicate_nodes(P, D), for every key k, P
\* keeps its value when it had k with a non-null value and otherwise takes
\* D's value when D had k; P gains no key that neither node had.
C9_MergeAttributes ==
    MergeDone =>
        LET A0 == StoreBefore.nodes[last.a]
            D0 == StoreBefore.nodes[last.b]
            A == Store.nodes[last.a]
        IN  /\ DOMAIN A = DOMAIN A0 \cup DOMAIN D0
            /\ \A k \in DOMAIN A :
                  IF k \in DOMAIN A0 /\ A0[k] # None THEN A[k] = A0[k]
                  ELSE IF k \in DOMAIN D0 THEN A[k] = D0[k]
                  ELSE A[k] = A0[k]

\* P held a key as null that D had a value for, and both had another key
\* with different non-null values.
C9_Witness ==
    /\ MergeDone
    /\ LET A0 == StoreBefore.nodes[last.a]
           D0 == StoreBefore.nodes[last.b]
           A == Store.nodes[last.a]
       IN  /\ \E k \in DOMAIN A0 \cap DOMAIN D0 :
                 A0[k] = None /\ D0[k] # None /\ A[k] = D0[k]
           /\ \E k \in DOMAIN A0 \cap DOMAIN D0 :
                 A0[k] # None /\ D0[k] # None /\ A0[k] # D0[k] /\ A[k] = A0[k]

\* C10: a successful merge reports edges_transferred = the number of edges
\* incident to P that exist after the merge and did not exist before, and
\* merged_attributes = the keys copied from D onto P.
C10_MergeCounts ==
    MergeDone =>
        LET P == last.a
            A0 == StoreBefore.nodes[last.a]
            D0 == StoreBefore.nodes[last.b]
            gained == {e \in DOMAIN Store.edges \ DOMAIN StoreBefore.edges :
                          e[1] = P \/ e[2] = P}
        IN  /\ last.result.edges_transferred = Cardinality(gained)
            /\ last.result.merged_attributes
                  = {k \in DOMAIN D0 : k \notin DOMAIN A0 \/ A0[k] = None}

\* The nodes of the store without any edge, and the store's patient nodes.
Orphans == {n \in DOMAIN Store.nodes : degree(Store, n) = 0}
Patients == {n \in DOMAIN Store.nodes : Get(Store.nodes[n], "node_type", None) = "patient"}

\* C11: validate_graph_structure on a graph with one patient node, exactly
\* one node of degree 0, which is not the patient, and all other nodes in one
\* weakly connected piece returns is_valid = true, no critical issue and the
\* orphan warning as its only warning.
C11_OrphanIsWarningOnly ==
    (/\ last.op = "validate_graph_structure"
     /\ Cardinality(Patients) = 1
     /\ Cardinality(Orphans) = 1
     /\ Orphans \cap Patients = {}
     /\ number_weakly_connected_components(Store, DOMAIN Store.nodes \ Orphans) = 1)
        => /\ Succeeded
           /\ last.result.view.is_valid = TRUE
           /\ last.result.view.critical_issues = <<>>
           /\ last.result.view.warnings = <<"orphaned">>

\* The node ids the last call wrote with graph.add_node.
UpsertIds ==
    IF last.op = "bulk_add_nodes"
    THEN {last.batch[i]["node_id"] : i \in ValidNodeIdx(last.batch)}
    ELSE {last.a}

\* C12: initialize_patient_graph, add_node and bulk_add_nodes on ids that
\* are already in the store leave the set of nodes as it was and keep every
\* edge with its attributes; after initialize_patient_graph(p, n) the store
\* holds exactly one node with id p and its node_type is patient.
C12_NodeUpsertIdempotent ==
    /\ (/\ last.op \in {"initialize_patient_graph", "add_node", "bulk_add_nodes"}
        /\ Succeeded
        /\ UpsertIds \subseteq DOMAIN StoreBefore.nodes)
          => /\ DOMAIN Store.nodes = DOMAIN StoreBefore.nodes
             /\ number_of_nodes(Store) = number_of_nodes(StoreBefore)
             /\ Cardinality(kg_data.nodes) = Cardinality(pre.nodes)
             /\ Store.edges = StoreBefore.edges
    /\ last.op = "initialize_patient_graph"
          => /\ Cardinality({d \in kg_data.nodes : d["id"] = last.a}) = 1
             /\ Store.nodes[last.a]["node_type"] = "patient"

\* A second initialize_patient_graph on a patient node that has an edge.
C12_Witness ==
    /\ last.op = "initialize_patient_graph"
    /\ has_node(StoreBefore, last.a)
    /\ StoreBefore.nodes[last.a]["node_type"] = "patient"
    /\ degree(StoreBefore, last.a) > 0
    /\ degree(Store, last.a) > 0

\* The pairs a relationships batch writes with graph.add_edge.
ValidRelPairs ==
    {<<last.batch[i]["source_id"], last.batch[i]["target_id"]>> :
        i \in ValidRelIdx(last.batch, StoreBefore)}

\* C13: the store never holds two links with the same source and target;
\* add_relationship on a pair that has an edge keeps the number of edges and
\* leaves the edge with the relationship_type of the call (last write wins);
\* bulk_add_relationships adds one edge per new pair only, and a merge never
\* leaves more edges than it found.
C13_OneEdgePerPair ==
    /\ \A d1, d2 \in kg_data.links :
          (d1["source"] = d2["source"] /\ d1["target"] = d2["target"]) => d1 = d2
    /\ (last.op = "add_relationship" /\ Succeeded /\ has_edge(StoreBefore, last.a, last.b))
          => /\ DOMAIN Store.edges = DOMAIN StoreBefore.edges
             /\ Cardinality(kg_data.links) = Cardinality(pre.links)
             /\ "relationship_type" \notin DOMAIN last.props
                   => Store.edges[<<last.a, last.b>>]["relationship_type"] = last.rel
    /\ last.op = "bulk_add_relationships"
          => /\ DOMAIN Store.edges = DOMAIN StoreBefore.edges \cup ValidRelPairs
             /\ Cardinality(kg_data.links)
                   = Cardinality(DOMAIN StoreBefore.edges \cup ValidRelPairs)
    /\ (last.op = "merge_duplicate_nodes" /\ Succeeded)
          => Cardinality(kg_data.links) <= Cardinality(pre.links)

\* add_relationship on an existing edge whose type differs from the new one.
C13_Witness ==
    /\ last.op = "add_relationship" /\ Succeeded
    /\ has_edge(StoreBefore, last.a, last.b)
    /\ StoreBefore.edges[<<last.a, last.b>>]["relationship_type"] # last.rel
    /\ Store.edges[<<last.a, last.b>>]["relationship_type"] = last.rel

\* The trace of C14 (condition_hypertension stands for C1 and
\* medication_lisinopril for M1): each step applied to what the step before
\* left in kg_data.
TraceNodes ==
    << [node_id |-> "condition_hypertension", node_type |-> "condition",
        label |-> "Hypertension", properties |-> [icd_code |-> "I10"]],
       [node_id |-> "medication_lisinopril", node_type |-> "medication",
        label |-> "Lisinopril"] >>
TraceRels ==
    << [source_id |-> "P1", target_id |-> "condition_hypertension",
        relationship_type |-> "HAS_CONDITION"],
       [source_id |-> "P1", target_id |-> "medication_lisinopril",
        relationship_type |-> "TAKES_MEDICATION"] >>
TraceStep1 == initialize_patient_graph(NoData, "P1", "Alice")
TraceStep2 == bulk_add_nodes(TraceStep1.data, TraceNodes)
TraceStep3 == bulk_add_relationships(TraceStep2.data, TraceRels)

\* C14: in the state reached from the empty store by
\* initialize_patient_graph(P1, Alice), bulk_add_nodes of the condition and
\* the medication and bulk_add_relationships of P1 -> condition
\* (HAS_CONDITION) and P1 -> medication (TAKES_MEDICATION), every step
\* succeeds, get_patient_overview(P1) returns that condition, that medication
\* and research_articles_count = 0, and validate_graph_structure returns
\* is_valid = true with no critical issue and no warning.
C14_EndToEnd ==
    (kg_data = TraceStep3.data)
        => /\ TraceStep2.result.status = "ok" /\ TraceStep2.result.added = 2
           /\ TraceStep3.result.status = "ok" /\ TraceStep3.result.added = 2
           /\ (last.op = "get_patient_overview" /\ last.a = "P1")
                 => /\ Succeeded
                    /\ last.result.view.conditions = {"condition_hypertension"}
                    /\ last.result.view.medications = {"medication_lisinopril"}
                    /\ last.result.view.research_articles_count = 0
           /\ last.op = "validate_graph_structure"
                 => /\ Succeeded
                    /\ last.result.view.is_valid = TRUE
                    /\ last.result.view.critical_issues = <<>>
                    /\ last.result.view.warnings = <<>>
           /\ get_patient_overview(kg_data, "P1").view.conditions = {"condition_hypertension"}
           /\ validate_graph_structure(kg_data).view.is_valid = TRUE

\* The overview read right after the three steps of the trace.
C14_Witness ==
    /\ calls = 3
    /\ kg_data = TraceStep3.data
    /\ pre = TraceStep3.data
    /\ last.op = "get_patient_overview" /\ last.a = "P1"
    /\ last.result.view.medications = {"medication_lisinopril"}

\* C15: save_graph_to_disk writes the node-link form of the store to its
\* .json file and leaves kg_data alone; load_graph_from_disk of a .json file
\* that holds what save_graph_to_disk writes for the store succeeds and
\* yields a store with the same nodes, the same directed edges and the same
\* attribute values, and reports the same counts.
C15_JsonRoundTrip ==
    /\ (last.op = "save_graph_to_disk" /\ Succeeded)
          => /\ kg_data = pre
             /\ \E path \in last.result.view.files_saved :
                    path.tail = JsonTail /\ files[path] = json_file(Store)
    /\ (/\ last.op = "load_graph_from_disk"
        /\ last.a \in DOMAIN files
        /\ last.a.tail = JsonTail
        /\ files[last.a] = json_file(StoreBefore))
          => /\ Succeeded
             /\ DOMAIN Store.nodes = DOMAIN StoreBefore.nodes
             /\ DOMAIN Store.edges = DOMAIN StoreBefore.edges
             /\ Store = StoreBefore
             /\ last.result.view.node_count = number_of_nodes(StoreBefore)
             /\ last.result.view.edge_count = number_of_edges(StoreBefore)

\* A graph with an edge saved and loaded back.
C15_Witness ==
    /\ last.op = "load_graph_from_disk" /\ Succeeded
    /\ last.a.tail = JsonTail
    /\ files[last.a] = json_file(StoreBefore)
    /\ number_of_edges(Store) > 0

\* C16: a successful save_graph_to_disk or export_graph_as_cytoscape_json
\* writes only to paths at which no file existed when the call started.
C16_NoOverwrite ==
    [][(/\ calls' = calls + 1
        /\ last'.op \in {"save_graph_to_disk", "export_graph_as_cytoscape_json"}
        /\ last'.result.status = "ok")
          => last'.result.view.files_saved \cap DOMAIN files = {}]_vars

\* C17: a successful load_graph_from_disk leaves exactly the nodes and edges
\* of the file in the store, whatever the store held before; a load of a
\* missing file, of a file with another suffix than .json or .graphml, or of
\* a .json file that is not in node-link form returns an error and leaves
\* kg_data as it was.
C17_LoadReplaces ==
    last.op = "load_graph_from_disk"
      => /\ Succeeded
              => LET content == files[last.a] IN
                 IF last.a.tail = JsonTail
                 THEN /\ kg_data.nodes = {json_load(d) : d \in content.nodes}
                      /\ kg_data.links = {json_load(d) : d \in content.edges}
                      /\ DOMAIN Store.nodes = {json_load(d)["id"] : d \in content.nodes}
                 ELSE /\ last.a.tail = GraphmlTail
                      /\ DOMAIN Store.nodes = DOMAIN content.nodes
                      /\ DOMAIN Store.edges = DOMAIN content.edges
         /\ Failed => kg_data = pre
         /\ last.a \notin DOMAIN files
              => Failed /\ last.result.error = "file_not_found"
         /\ (last.a \in DOMAIN files /\ last.a.tail = SummaryTail)
              => Failed /\ last.result.error = "unsupported_format"
         /\ (last.a \in DOMAIN files /\ last.a.tail = CytoscapeTail)
              => Failed /\ last.result.error = "load_failed"
         /\ (last.a \in DOMAIN files /\ last.a.tail \in {JsonTail, GraphmlTail})
              => Succeeded

\* A load after which a node of the previous graph is gone.
C17_Witness ==
    /\ last.op = "load_graph_from_disk" /\ Succeeded
    /\ ~(DOMAIN StoreBefore.nodes \subseteq DOMAIN Store.nodes)
    /\ number_of_nodes(Store) > 0

\* C18: at any time at most one driver is open, and the drivers the callers
\* hold that are still open are one and the same.
C18_SingleDriver ==
    /\ Cardinality(client.opened) <= 1
    /\ \A t1, t2 \in Sessions :
          (client.got[t1] \in client.opened /\ client.got[t2] \in client.opened)
              => client.got[t1] = client.got[t2]

DurableBulkOps ==
    {"neo4j_bulk_add_conditions", "neo4j_bulk_add_medications",
     "neo4j_bulk_link_articles_to_conditions", "neo4j_bulk_link_articles_to_medications",
     "neo4j_bulk_create_custom_nodes", "neo4j_bulk_create_custom_relationships"}

\* C19: a durable bulk call that fails leaves none of its writes in the
\* database.
C19_BulkAllOrNothing ==
    (last.op \in DurableBulkOps /\ Failed) => db = db_pre

DurableUpserts ==
    {"neo4j_initialize_patient_graph", "neo4j_add_condition", "neo4j_add_medication",
     "neo4j_add_research_article", "neo4j_add_clinical_trial",
     "neo4j_create_custom_node", "neo4j_link_article_to_condition",
     "neo4j_create_custom_relationship"}

\* C20: a durable single-item write repeated with the arguments of the call
\* before it changes neither the number of nodes nor the number of
\* relationships.
C20_RetryKeepsCounts ==
    [][(/\ calls' = calls + 1
        /\ last'.op \in DurableUpserts
        /\ last'.op = last.op
        /\ last'.a = last.a /\ last'.b = last.b
        /\ last'.rel = last.rel /\ last'.props = last.props)
          => /\ Cardinality(DOMAIN db'.nodes) = Cardinality(DOMAIN db.nodes)
             /\ Cardinality(DOMAIN db'.rels) = Cardinality(DOMAIN db.rels)]_vars

\* C22: when neo4j_add_condition or neo4j_add_medication returns its error
\* result, the database is as it was before the call.
C22_ErrorLeavesDatabase ==
    (last.op \in {"neo4j_add_condition", "neo4j_add_medication"} /\ Failed)
        => db = db_pre

\* C23: a durable bulk add for a patient_id that matches no Patient node, and
\* a bulk link of which no record matches an article and a condition, return
\* an error result.
C23_NoSilentFailure ==
    /\ (/\ last.op \in {"neo4j_bulk_add_conditions", "neo4j_bulk_add_medications"}
        /\ last.batch # <<>>
        /\ match_nodes(db_pre, "Patient", "patient_id", last.a) = {})
            => Failed
    /\ (/\ last.op = "neo4j_bulk_link_articles_to_conditions"
        /\ last.batch # <<>>
        /\ \A i \in DOMAIN last.batch :
              \/ match_nodes(db_pre, "ResearchArticle", "article_id",
                             Get(last.batch[i], "article_id", None)) = {}
              \/ match_nodes(db_pre, "Condition", "condition_id",
                             Get(last.batch[i], "condition_id", None)) = {})
            => Failed

\* C24: after neo4j_bulk_link_articles_to_medications every input link whose
\* article_id and medication_id are stored (under the keys article_id and
\* medication_id of the creation tools) has its
\* INFORMS_MEDICATION_MANAGEMENT relationship.
C24_LinksByStoredKey ==
    (last.op = "neo4j_bulk_link_articles_to_medications" /\ Succeeded)
        => \A i \in DOMAIN last.batch :
              \A a \in match_nodes(db_pre, "ResearchArticle", "article_id",
                                   Get(last.batch[i], "article_id", None)),
                 m \in match_nodes(db_pre, "Medication", "medication_id",
                                   Get(last.batch[i], "medication_id", None)) :
                  <<a, "INFORMS_MEDICATION_MANAGEMENT", m>> \in DOMAIN db.rels

\* C26: a mutating call on an initialized (non-empty) store leaves the store
\* initialized.
C26_StaysInitialized ==
    (last.op \in Mutations /\ number_of_nodes(StoreBefore) > 0)
        => number_of_nodes(Store) > 0

\* C28: after a successful add_node the stored node has the node_type and
\* the label passed as arguments, after bulk_add_nodes every valid item's
\* node has the item's node_type and label (the last item of an id counts),
\* and after a successful add_relationship the stored edge has the
\* relationship_type passed as argument.
C28_StoredAsPassed ==
    /\ (last.op = "add_node" /\ Succeeded)
          => /\ Store.nodes[last.a]["node_type"] = last.b
             /\ Store.nodes[last.a]["label"] = last.rel
    /\ (last.op = "bulk_add_nodes" /\ Succeeded)
          => \A i \in ValidNodeIdx(last.batch) :
                (\A j \in ValidNodeIdx(last.batch) :
                    last.batch[j]["node_id"] = last.batch[i]["node_id"] => j <= i)
                => /\ Store.nodes[last.batch[i]["node_id"]]["node_type"]
                        = last.batch[i]["node_type"]
                   /\ Store.nodes[last.batch[i]["node_id"]]["label"]
                        = last.batch[i]["label"]
    /\ (last.op = "add_relationship" /\ Succeeded)
          => Store.edges[<<last.a, last.b>>]["relationship_type"] = last.rel

DurableOps ==
    DurableBulkOps \cup DurableUpserts
        \cup {"neo4j_get_patient_overview", "neo4j_clear_patient_graph",
              "initialize_neo4j_schema"}

\* C21: no durable operation ends with the exception of missing credentials
\* or of an unreachable database leaving the tool; it returns an error
\* payload instead.
C21_NoExceptionEscapes ==
    last.op \in DurableOps
        => last.result.error \notin {"RuntimeError", "ServiceUnavailable"}

\* C25: when both stores hold the same graph, neo4j_get_patient_overview
\* reports the research_articles_count that get_patient_overview reports,
\* which is the number of research_article nodes with an edge to one of the
\* patient's conditions.
C25_SameArticleCount ==
    (/\ last.op = "neo4j_get_patient_overview" /\ last.a = "P1" /\ Succeeded
     /\ \E g \in LogicalGraphs :
           g.other = {} /\ kg_data = memory_of(g) /\ db = durable_of(g))
        => LET view == get_patient_overview(kg_data, "P1").view
               articles == {n \in DOMAIN Store.nodes :
                              /\ Get(Store.nodes[n], "node_type", None) = "research_article"
                              /\ neighbors(Store, n) \cap view.conditions # {}}
           IN  /\ last.result.view.research_articles_count = view.research_articles_count
               /\ view.research_articles_count = Cardinality(articles)

\* C27: when get_patient_overview counts at least one research article for
\* the patient that analyze_graph_connectivity analysed, the analysis emits
\* neither of the two insights about missing research.
C27_NoMissingResearchInsight ==
    (/\ last.op = "analyze_graph_connectivity" /\ Succeeded
     /\ get_patient_overview(kg_data, last.result.view.patient_id)
            .view.research_articles_count > 0)
        => \A i \in DOMAIN last.result.view.insights :
              last.result.view.insights[i]
                  \notin {"no_research_articles", "conditions_without_research"}

\* C29: neo4j_clear_patient_graph(A) leaves every other Patient node, every
\* relationship that starts at it and the node at the end of each such
\* relationship as they were.
C29_ClearLeavesOthers ==
    (last.op = "neo4j_clear_patient_graph" /\ Succeeded)
        => \A b \in DOMAIN db_pre.nodes :
              (/\ db_pre.nodes[b].label = "Patient"
               /\ Get(db_pre.nodes[b].props, "patient_id", None) # last.a)
                => /\ b \in DOMAIN db.nodes
                   /\ db.nodes[b] = db_pre.nodes[b]
                   /\ \A e \in DOMAIN db_pre.rels :
                         e[1] = b
                           => /\ e \in DOMAIN db.rels
                              /\ db.rels[e] = db_pre.rels[e]
                              /\ e[3] \in DOMAIN db.nodes
                              /\ db.nodes[e[3]] = db_pre.nodes[e[3]]

InFlight == flight.pc = "running"

\* C30 (as stated): kg_data, which is what a read tool loads, is always the
\* graph stored before the mutating call under way (or, with none under way,
\* by the last one) or the graph stored after it: no read tool writes
\* kg_data, and no call stores a partial result.
C30_ReadSeesBeforeOrAfter ==
    kg_data \in {flight.before, flight.after}

\* C30 (amended): the same for every mutating call that stores once, which
\* is every tool but add_patient_condition and add_patient_medication.
C30_SingleStoreCallsAtomic ==
    flight.op \notin {"add_patient_condition", "add_patient_medication"}
        => kg_data \in {flight.before, flight.after}

\* A read has run after the store of a bulk call or a merge that changed the
\* graph and before the call returned.
C30_Witness ==
    /\ InFlight
    /\ flight.op \in {"bulk_add_nodes", "bulk_add_relationships", "merge_duplicate_nodes"}
    /\ flight.pending = <<>>
    /\ flight.after # flight.before
    /\ kg_data = flight.after
    /\ last.op \in {"validate_graph_structure", "get_patient_overview",
                    "analyze_graph_connectivity"}
    /\ pre = flight.after
====
